---- MODULE Spec2Model ----
(***************************************************************************)
(* Centiloid quantification pipeline of mispm (mispmsrc/CLRefactoring):    *)
(* SUVRCalculator (masks, per-file SUVR loop), CLCalculator (Centiloid     *)
(* transform) and the part of PIBAnalyzer.run_analysis that drives them.   *)
(*                                                                         *)
(* Numbers.  A float64 is modelled as a record [k, n, d]: k = "fin" is the *)
(* exact rational n/d (d > 0, lowest terms), k = "nan" / "pinf" / "ninf"   *)
(* are the IEEE specials.  Arithmetic is exact on rationals (no rounding), *)
(* and follows IEEE for the specials and for overflow past MaxFloat.       *)
(*                                                                         *)
(* Arrays.  A voxel grid is a sequence of numbers along one axis; its      *)
(* shape is its length.  A file is a record naming what os.path.exists and *)
(* nibabel.load do with it.                                                *)
(***************************************************************************)
EXTENDS Integers, Sequences, FiniteSets, TLC

\* ------------------------------------------------------------------ bounds
\* longest AD / YC SUVR array handed to CLCalculator.calculate
MaxAD == 3
MaxYC == 3
\* longest file list handed to SUVRCalculator.calculate (mixed directories)
MaxFiles == 2
\* longest file list of an all-failing directory (beyond the 10-reason cap)
MaxBatch == 12

\* ----------------------------------------------------------- float64 model
\* stands for sys.float_info.max, the value numpy.nan_to_num puts for +inf
MaxFloat == 100000000
\* magnitudes from here up absorb a small addend (x + y rounds back to x)
HugeFrom == 10000000
\* magnitudes up to here are small addends
TinyUpTo == 10000

Abs(i) == IF i < 0 THEN -i ELSE i

RECURSIVE GCD(_, _)
GCD(a, b) == IF b = 0 THEN a ELSE GCD(b, a % b)

NaN == [k |-> "nan", n |-> 0, d |-> 1]
PInf == [k |-> "pinf", n |-> 0, d |-> 1]
NInf == [k |-> "ninf", n |-> 0, d |-> 1]

\* the rational n/d in lowest terms, d # 0
Fin(n, d) ==
    LET s == IF d < 0 THEN -1 ELSE 1
        g == GCD(Abs(n), Abs(d))
    IN  [k |-> "fin", n |-> (s * n) \div g, d |-> (s * d) \div g]

Int2F(i) == [k |-> "fin", n |-> i, d |-> 1]
Zero == Int2F(0)

\* n/d as a float64: past MaxFloat it overflows to an infinity
FinO(n, d) ==
    LET x == Fin(n, d)
        q == Abs(x.n) \div x.d
        over == q > MaxFloat \/ (q = MaxFloat /\ Abs(x.n) % x.d # 0)
    IN  IF over THEN (IF x.n > 0 THEN PInf ELSE NInf) ELSE x

IsNaN(x) == x.k = "nan"
IsFinite(x) == x.k = "fin"
\* -1, 0, 1; only for non-NaN
Sign(x) ==
    CASE x.k = "pinf" -> 1
      [] x.k = "ninf" -> -1
      [] OTHER -> IF x.n > 0 THEN 1 ELSE IF x.n < 0 THEN -1 ELSE 0
SignedInf(s) == IF s > 0 THEN PInf ELSE NInf

IsHuge(x) == IsFinite(x) /\ Abs(x.n) \div x.d >= HugeFrom
IsTiny(x) == IsFinite(x) /\ Abs(x.n) \div x.d < TinyUpTo

FNeg(x) ==
    CASE x.k = "nan" -> NaN
      [] x.k = "pinf" -> NInf
      [] x.k = "ninf" -> PInf
      [] OTHER -> [k |-> "fin", n |-> -x.n, d |-> x.d]

FAdd(x, y) ==
    IF IsNaN(x) \/ IsNaN(y) THEN NaN
    ELSE IF ~IsFinite(x) THEN (IF ~IsFinite(y) /\ y.k # x.k THEN NaN ELSE x)
    ELSE IF ~IsFinite(y) THEN y
    ELSE IF IsHuge(x) /\ IsTiny(y) THEN x
    ELSE IF IsHuge(y) /\ IsTiny(x) THEN y
    ELSE LET g == GCD(x.d, y.d)
             l == (x.d \div g) * y.d
         IN  FinO(x.n * (l \div x.d) + y.n * (l \div y.d), l)

FSub(x, y) == FAdd(x, FNeg(y))

FMul(x, y) ==
    IF IsNaN(x) \/ IsNaN(y) THEN NaN
    ELSE IF ~IsFinite(x) \/ ~IsFinite(y)
         THEN (IF Sign(x) * Sign(y) = 0 THEN NaN ELSE SignedInf(Sign(x) * Sign(y)))
    ELSE LET g1 == GCD(Abs(x.n), y.d)
             g2 == GCD(Abs(y.n), x.d)
         IN  IF x.n = 0 \/ y.n = 0 THEN Zero
             ELSE FinO((x.n \div g1) * (y.n \div g2), (x.d \div g2) * (y.d \div g1))

\* numpy float64 division: x/0 is an infinity or NaN, never an exception
FDiv(x, y) ==
    IF IsNaN(x) \/ IsNaN(y) THEN NaN
    ELSE IF ~IsFinite(y) THEN (IF ~IsFinite(x) THEN NaN ELSE Zero)
    ELSE IF y.n = 0 THEN (IF Sign(x) = 0 THEN NaN ELSE SignedInf(Sign(x)))
    ELSE IF ~IsFinite(x) THEN SignedInf(Sign(x) * Sign(y))
    ELSE FMul(x, Fin(y.d, y.n))

\* x < y, x <= y; any comparison with NaN is False
FLt(x, y) ==
    IF IsNaN(x) \/ IsNaN(y) THEN FALSE
    ELSE IF x.k = "pinf" \/ y.k = "ninf" THEN FALSE
    ELSE IF x.k = "ninf" \/ y.k = "pinf" THEN TRUE
    ELSE LET g == GCD(x.d, y.d)
         IN  x.n * (y.d \div g) < y.n * (x.d \div g)

FLe(x, y) == ~IsNaN(x) /\ ~IsNaN(y) /\ (x = y \/ FLt(x, y))

FAbs(x) == IF IsNaN(x) THEN NaN ELSE IF Sign(x) < 0 THEN FNeg(x) ELSE x

\* numpy.sum over a short array: left to right, 0.0 for the empty array
RECURSIVE FSumFrom(_, _, _)
FSumFrom(a, i, acc) ==
    IF i > Len(a) THEN acc ELSE FSumFrom(a, i + 1, FAdd(acc, a[i]))

FSum(a) == FSumFrom(a, 1, Zero)

\* numpy.mean: sum / size (NaN for the empty array)
FMean(a) == FDiv(FSum(a), Int2F(Len(a)))

\* the arrays of length 1..n over S
SeqsUpTo(S, n) == UNION {[1..m -> S] : m \in 1..n}

\* ------------------------------------------------------------ CLCalculator
VARIABLES
    clpc,          \* "ready": inputs chosen; "done": CL values computed
    cl_ad_suvr,    \* ad_suvr argument
    cl_yc_suvr,    \* yc_suvr argument
    ad_cl, yc_cl,  \* CL arrays
    suvr_yc_mean, suvr_ad_mean,
    slope,
    cl_fallback,   \* the "using default slope of 100" branch was taken
    cl_manual      \* computed by run_analysis' except block, not CLCalculator

clvars == <<clpc, cl_ad_suvr, cl_yc_suvr, ad_cl, yc_cl, suvr_yc_mean,
            suvr_ad_mean, slope, cl_fallback, cl_manual>>

\* SUVR arrays the cohorts are drawn from: well separated cohorts, close
\* cohorts (1.0005 = 2001/2000), inverted cohorts, and the pair AD = [2.0, 2.2,
\* 2.4], YC = [1.0, 1.05, 1.1]
ADVals == {Fin(2, 1), Fin(12, 5)}
YCVals == {Fin(1, 1), Fin(11, 10)}
ADCloseVals == {Fin(1, 1), Fin(1001, 1000)}
YCCloseVals == {Fin(1, 1), Fin(2001, 2000)}
ADLowVals == {Fin(1, 1), Fin(11, 5)}
YCHighVals == {Fin(11, 10), Fin(12, 5)}
ExampleAD == <<Fin(2, 1), Fin(11, 5), Fin(12, 5)>>
ExampleYC == <<Fin(1, 1), Fin(21, 20), Fin(11, 10)>>
CLInputs ==
    (SeqsUpTo(ADVals, MaxAD) \X SeqsUpTo(YCVals, MaxYC))
        \cup (SeqsUpTo(ADCloseVals, MaxAD) \X SeqsUpTo(YCCloseVals, MaxYC))
        \cup (SeqsUpTo(ADLowVals, MaxAD) \X SeqsUpTo(YCHighVals, MaxYC))
        \cup {<<ExampleAD, ExampleYC>>}

\* the 0.001 of `abs(suvr_ad_mean - suvr_yc_mean) < 0.001`
SlopeEps == Fin(1, 1000)
DefaultSlope == Int2F(100)

\* the branch condition without abs(): an inverted pair falls back too
TakesFallback_noAbs(adMean, ycMean) == FLt(FSub(adMean, ycMean), SlopeEps)

\* the branch condition of CLCalculator.calculate
TakesFallback(adMean, ycMean) == FLt(FAbs(FSub(adMean, ycMean)), SlopeEps)

\* the slope anchored on the AD mean alone
CLSlope_overAD(adMean, ycMean) ==
    IF TakesFallback(adMean, ycMean) THEN DefaultSlope
    ELSE FDiv(Int2F(100), adMean)

CLSlope(adMean, ycMean) ==
    IF TakesFallback(adMean, ycMean) THEN DefaultSlope
    ELSE FDiv(Int2F(100), FSub(adMean, ycMean))

\* slope * arr, the YC mean not subtracted
CLArray_unshifted(arr, sl, ycMean) == [i \in 1..Len(arr) |-> FMul(sl, arr[i])]

\* slope * (arr - yc_mean), elementwise, as a new array
CLArray(arr, sl, ycMean) == [i \in 1..Len(arr) |-> FMul(sl, FSub(arr[i], ycMean))]

\* CLCalculator.calculate(ad_suvr, yc_suvr)
CLCalculate ==
    /\ clpc = "ready"
    /\ LET ycM == FMean(cl_yc_suvr)
           adM == FMean(cl_ad_suvr)
           sl == CLSlope(adM, ycM)
       IN  /\ suvr_yc_mean' = ycM
           /\ suvr_ad_mean' = adM
           /\ cl_fallback' = TakesFallback(adM, ycM)
           /\ slope' = sl
           /\ ad_cl' = CLArray(cl_ad_suvr, sl, ycM)
           /\ yc_cl' = CLArray(cl_yc_suvr, sl, ycM)
    /\ cl_manual' = FALSE
    /\ clpc' = "done"
    /\ UNCHANGED <<cl_ad_suvr, cl_yc_suvr>>

\* the manual slope rule of run_analysis' except block
ManualSlope(adMean, ycMean) ==
    IF FLt(FAbs(FSub(adMean, ycMean)), SlopeEps) THEN DefaultSlope
    ELSE FDiv(Int2F(100), FSub(adMean, ycMean))

\* run_analysis: cl_calculator.calculate raised, CL computed by hand
CLManualFallback ==
    /\ clpc = "ready"
    /\ LET ycM == FMean(cl_yc_suvr)
           adM == FMean(cl_ad_suvr)
           sl == ManualSlope(adM, ycM)
       IN  /\ suvr_yc_mean' = ycM
           /\ suvr_ad_mean' = adM
           /\ cl_fallback' = FLt(FAbs(FSub(adM, ycM)), SlopeEps)
           /\ slope' = sl
           /\ ad_cl' = CLArray(cl_ad_suvr, sl, ycM)
           /\ yc_cl' = CLArray(cl_yc_suvr, sl, ycM)
    /\ cl_manual' = TRUE
    /\ clpc' = "done"
    /\ UNCHANGED <<cl_ad_suvr, cl_yc_suvr>>


\* ------------------------------------------------ SUVRCalculator._resample_mask
Zeros(m) == [i \in 1..m |-> Zero]

\* scipy.ndimage.zoom(order=0): length of the output axis, round(in * factor)
\* with factor = target/current, or 1 for an axis of length 0
ZoomLen(nin, target) == IF nin = 0 THEN 0 ELSE target

\* input index (0-based) that output index j takes its value from:
\* floor(j * (nin-1)/(nout-1) + 0.5), the step being 1 when nout = 1
ZoomIndex(j, nin, nout) ==
    IF nout = 1 THEN j
    ELSE (2 * j * (nin - 1) + (nout - 1)) \div (2 * (nout - 1))

Zoom(mask, target) ==
    LET nout == ZoomLen(Len(mask), target)
    IN  [i \in 1..nout |-> mask[ZoomIndex(i - 1, Len(mask), nout) + 1]]

\* the array with every non-zero voxel set to 1
Binarized(mask) == [i \in 1..Len(mask) |-> IF mask[i] = Zero THEN Zero ELSE Int2F(1)]

ResampleMask_binarize(mask_img, target) ==
    LET resampled == Zoom(mask_img, target)
    IN  Binarized(IF target > Len(resampled)
                  THEN resampled \o Zeros(target - Len(resampled))
                  ELSE resampled)

ResampleMask(mask_img, target) ==
    IF Len(mask_img) = target THEN mask_img
    ELSE LET resampled == Zoom(mask_img, target)
         IN  IF target > Len(resampled)
             THEN resampled \o Zeros(target - Len(resampled))
             ELSE resampled

\* ------------------------------------------------ SUVRCalculator.calculate
V(i) == Int2F(i)

\* what the file system and nibabel give for a path: exists (os.path.exists),
\* loads (nib.load + get_fdata do not raise), frames (one 3D grid per frame;
\* a 3D image has ndim 3 and one frame)
Vol3(data) == [exists |-> TRUE, loads |-> TRUE, ndim |-> 3, frames |-> <<data>>]
Vol4(fr) == [exists |-> TRUE, loads |-> TRUE, ndim |-> 4, frames |-> fr]
Missing == [exists |-> FALSE, loads |-> FALSE, ndim |-> 3, frames |-> <<>>]
Corrupt == [exists |-> TRUE, loads |-> FALSE, ndim |-> 3, frames |-> <<>>]

RECURSIVE SizeFrom(_, _)
SizeFrom(fr, i) == IF i > Len(fr) THEN 0 ELSE Len(fr[i]) + SizeFrom(fr, i + 1)
\* pet_img.size
ImgSize(c) == SizeFrom(c.frames, 1)

\* directories the cohort lists are taken from
DirA ==
    [p \in {"wAD01.nii", "wAD02.nii", "wAD03.nii", "wAD04.nii"} |->
        CASE p = "wAD01.nii" -> Vol3(<<V(4), V(4), V(2), V(2)>>)
          [] p = "wAD02.nii" -> Vol3(<<V(4), V(0), V(2), V(2)>>)
          [] p = "wAD03.nii" -> Missing
          [] OTHER -> Corrupt]
DirB ==
    [p \in {"wYC01.nii", "wYC02.nii", "wYC03.nii", "wYC04.nii"} |->
        CASE p = "wYC01.nii" -> Vol3(<<V(0), V(0), V(2), V(2)>>)
          [] p = "wYC02.nii" -> Vol3(<<V(2), V(2), V(0), V(0)>>)
          [] p = "wYC03.nii" -> Vol3(<<V(2), V(2), V(2), V(-1)>>)
          [] OTHER -> Vol3(<<V(2), V(2), V(-2), V(2)>>)]
DirC ==
    [p \in {"wrAD06.nii", "wrAD07.nii", "wrAD08.nii", "wrAD09.nii"} |->
        CASE p = "wrAD06.nii" -> Vol3(<<>>)
          [] p = "wrAD07.nii" -> Vol3(<<V(4), NaN, V(2), V(2)>>)
          [] p = "wrAD08.nii" -> Vol4(<<<<V(3), V(3), V(2), V(2)>>, <<V(0), V(0), V(0), V(0)>>>>)
          [] OTHER -> Vol3(<<V(3), V(2)>>)]
DirD ==
    [p \in {"wrYC10.nii", "wrYC11.nii", "wrYC12.nii", "wrYC13.nii"} |->
        CASE p = "wrYC10.nii" -> Vol3(<<V(4), V(4), PInf, V(2)>>)
          [] p = "wrYC11.nii" -> Vol3(<<PInf, V(4), V(2), V(2)>>)
          [] p = "wrYC12.nii" -> Vol3(<<V(4), NaN, PInf, V(2)>>)
          [] OTHER -> Vol3(<<V(3), V(3), V(2), V(2)>>)]
\* volumes of 20 voxels, on which the masks are resampled
DirE ==
    [p \in {"wYC20.nii", "wYC21.nii", "wYC22.nii", "wYC23.nii"} |->
        CASE p = "wYC20.nii" -> Vol3([i \in 1..20 |-> V(2)])
          [] p = "wYC21.nii" -> Vol3([i \in 1..20 |-> IF i = 1 THEN V(0)
                                                     ELSE IF i <= 10 THEN V(8) ELSE V(2)])
          [] p = "wYC22.nii" -> Vol3([i \in 1..20 |-> IF i <= 10 THEN V(0) ELSE V(2)])
          [] OTHER -> Vol3([i \in 1..20 |-> IF i <= 10 THEN V(2) ELSE V(0)])]
\* a directory in which no file yields a value
DirBad ==
    [p \in {"wAD03.nii", "wrAD06.nii"} |->
        IF p = "wAD03.nii" THEN Missing ELSE Vol3(<<>>)]

Dirs == {DirA, DirB, DirC, DirD, DirE}

\* ROI / reference mask pairs load_masks may read
MaskPairs ==
    { [roi |-> <<V(1), V(1), V(0), V(0)>>, ref |-> <<V(0), V(0), V(1), V(1)>>],
      [roi |-> <<V(1), V(1), V(0), V(0)>>, ref |-> <<V(0), V(0), V(1), V(2)>>] }

\* numpy.count_nonzero: NaN and the infinities count as non-zero
CountNonzero(a) == Cardinality({i \in 1..Len(a) : a[i] # Zero})

\* numpy.nan_to_num(pet_img, 0): the 0 is the `copy` argument; NaN becomes 0.0
\* and the infinities become the largest finite floats
NanToNum(a) ==
    [i \in 1..Len(a) |->
        CASE a[i].k = "nan" -> Zero
          [] a[i].k = "pinf" -> V(MaxFloat)
          [] a[i].k = "ninf" -> V(-MaxFloat)
          [] OTHER -> a[i]]

NanCount(a) == Cardinality({i \in 1..Len(a) : IsNaN(a[i])})

\* lines 124-128: cleanup happens only when the image holds a NaN
CleanImage(a) == IF NanCount(a) > 0 THEN NanToNum(a) ELSE a

\* pet_img * mask, elementwise
Masked(pet, mask) == [i \in 1..Len(pet) |-> FMul(pet[i], mask[i])]

\* pet_img[mask > 0]
RECURSIVE WhereFrom(_, _, _)
WhereFrom(pet, mask, i) ==
    IF i > Len(pet) THEN <<>>
    ELSE (IF FLt(Zero, mask[i]) THEN <<pet[i]>> ELSE <<>>) \o WhereFrom(pet, mask, i + 1)

WherePositive(pet, mask) == WhereFrom(pet, mask, 1)

\* np.mean(pet_img[mask > 0]) if np.any(mask > 0) else 0
MeanWhere(pet, mask) ==
    LET sel == WherePositive(pet, mask)
    IN  IF sel = <<>> THEN Zero ELSE FMean(sel)

\* line 175: `if ref_sum <= 0`
NeedsRetry_strict(ref_sum) == FLt(ref_sum, Zero)

NeedsRetry(ref_sum) == FLe(ref_sum, Zero)

\* line 188: roi_sum / max(num_roi, 1)
MaskedMean(total, count) == FDiv(total, Int2F(IF count > 1 THEN count ELSE 1))

\* line 157: min_voxels
MinVoxels == 10

\* a count below the threshold is by itself a reason to skip
NoVoxels_tooFew(count) == count < MinVoxels

\* lines 160 and 166: `if num_roi == 0`, `if num_ref == 0`
NoVoxels(count) == count = 0

NoMeasure == [ok |-> FALSE, err |-> "", file |-> "", pet |-> <<>>,
              roi_resampled |-> <<>>, ref_resampled |-> <<>>,
              num_roi |-> 0, num_ref |-> 0, few_roi |-> FALSE, few_ref |-> FALSE,
              ref_sum |-> Zero, retried |-> FALSE,
              ref_mean |-> Zero, suv_roi |-> Zero, suv_ref |-> Zero,
              divided |-> FALSE, suvr |-> Zero, out_of_range |-> FALSE]

\* one iteration of the loop of calculate (lines 99-216) for file `filepath`
\* with content c: the locals at the point the iteration ends
ProcessFile(filepath, c, roi, ref) ==
    LET base == [NoMeasure EXCEPT !.file = filepath]
        Skip(r, why) == [r EXCEPT !.ok = FALSE, !.err = why]
        pet0 == c.frames[1]
        pet == CleanImage(pet0)
        roiR == IF Len(roi) # Len(pet) THEN ResampleMask(roi, Len(pet)) ELSE roi
        refR == IF Len(ref) # Len(pet) THEN ResampleMask(ref, Len(pet)) ELSE ref
        roi_voxels == Masked(pet, roiR)
        ref_voxels == Masked(pet, refR)
        nroi == CountNonzero(roi_voxels)
        nref == CountNonzero(ref_voxels)
        roi_sum == FSum(roi_voxels)
        ref_sum == FSum(ref_voxels)
        r1 == [base EXCEPT !.pet = pet, !.roi_resampled = roiR,
                           !.ref_resampled = refR, !.num_roi = nroi, !.num_ref = nref,
                           !.few_roi = nroi < MinVoxels]
        r1b == [r1 EXCEPT !.few_ref = nref < MinVoxels]
        r2 == [r1b EXCEPT !.ref_sum = ref_sum]
        ref_mean == MeanWhere(pet, refR)
        retry == NeedsRetry(ref_sum)
        suv_roi == IF retry THEN MeanWhere(pet, roiR) ELSE MaskedMean(roi_sum, nroi)
        suv_ref == IF retry THEN ref_mean ELSE MaskedMean(ref_sum, nref)
        r3 == [r2 EXCEPT !.retried = retry,
                         !.ref_mean = IF retry THEN ref_mean ELSE Zero,
                         !.suv_roi = suv_roi, !.suv_ref = suv_ref]
        suvr == FDiv(suv_roi, suv_ref)
        r4 == [r3 EXCEPT !.divided = TRUE, !.suvr = suvr]
    IN  IF ~c.exists THEN Skip(base, "File not found")
        ELSE IF ~c.loads THEN Skip(base, "Error processing")
        ELSE IF ImgSize(c) = 0 THEN Skip(base, "Empty image data")
        ELSE IF Len(roiR) # Len(pet) \/ Len(refR) # Len(pet)
             THEN Skip([base EXCEPT !.pet = pet], "Error processing")
        ELSE IF NoVoxels(nroi) THEN Skip(r1, "No ROI voxels")
        ELSE IF NoVoxels(nref) THEN Skip(r1b, "No reference voxels")
        ELSE IF retry /\ FLe(ref_mean, Zero)
             THEN Skip([r2 EXCEPT !.retried = TRUE, !.ref_mean = ref_mean],
                       "Zero or negative reference mean")
        ELSE IF ~FLt(Zero, suv_ref) THEN Skip(r3, "Zero reference SUV")
        ELSE IF ~IsFinite(suvr) THEN Skip(r4, "Invalid SUVR value")
        ELSE [r4 EXCEPT !.ok = TRUE,
                        !.out_of_range = ~(FLe(Fin(1, 2), suvr) /\ FLe(suvr, V(3)))]

VARIABLES
    fs,               \* the directory: path -> file content
    pc,               \* "new", "ready" (next calculate call), "loop", "done", "failed"
    cohort,           \* the list run_analysis is computing: "AD", then "YC"
    loaded,           \* roi_img / ref_img are not None
    roi_img, ref_img, \* self.roi_img, self.ref_img
    num_roi, num_ref, \* self.num_roi, self.num_ref
    pet_filepaths,    \* the part of the argument list the loop has consumed
    suvr_values, filtered_files, errors, processed_files,
    last,             \* locals of the last finished loop iteration
    raised,           \* message lines of the exception that ended the call
    error_details,    \* lines of the "Error details" record logged before raising
    ad_files, ad_suvr, ad_valid_files,  \* locals of run_analysis
    yc_files, yc_suvr, yc_valid_files

suvrvars == <<fs, pc, cohort, loaded, roi_img, ref_img, num_roi, num_ref,
              pet_filepaths, suvr_values, filtered_files, errors,
              processed_files, last, raised, error_details,
              ad_files, ad_suvr, ad_valid_files, yc_files, yc_suvr, yc_valid_files>>

maskvars == <<loaded, roi_img, ref_img, num_roi, num_ref>>
loopvars == <<pet_filepaths, suvr_values, filtered_files, errors, processed_files, last>>
runvars == <<ad_files, ad_suvr, ad_valid_files, yc_files, yc_suvr, yc_valid_files>>

\* one line of a message: its text and the number or path it is formatted with
Line(text, arg) == [text |-> text, arg |-> arg]
ErrorLine(r) == Line(r.err, r.file)

NoValidText == "No valid SUVR values could be calculated from N files"
MoreText == "...and N more errors"
\* the 10 of errors[:10]
DetailCap == 10

\* load_masks(roi_path, ref_path), both files readable
LoadMasks ==
    /\ pc = "new"
    /\ \E m \in MaskPairs :
        /\ roi_img' = m.roi
        /\ ref_img' = m.ref
        /\ num_roi' = CountNonzero(m.roi)
        /\ num_ref' = CountNonzero(m.ref)
    /\ loaded' = TRUE
    /\ pc' = "ready"
    /\ UNCHANGED <<fs, cohort, raised, error_details>>
    /\ UNCHANGED loopvars
    /\ UNCHANGED runvars

\* load_masks: nib.load raises on the first mask file, nothing is stored
LoadMasksRaises ==
    /\ pc = "new"
    /\ raised' = <<Line("mask file cannot be read", "")>>
    /\ pc' = "failed"
    /\ UNCHANGED <<fs, cohort, error_details>>
    /\ UNCHANGED maskvars
    /\ UNCHANGED loopvars
    /\ UNCHANGED runvars

\* calculate called before load_masks (lines 85-86)
CalculateUnloaded ==
    /\ pc = "new"
    /\ ~loaded
    /\ raised' = <<Line("ROI and reference masks must be loaded first", "")>>
    /\ pc' = "failed"
    /\ UNCHANGED <<fs, cohort, error_details>>
    /\ UNCHANGED maskvars
    /\ UNCHANGED loopvars
    /\ UNCHANGED runvars

\* calculate([]) (lines 88-89)
CalcEmpty ==
    /\ pc = "ready"
    /\ loaded
    /\ raised' = <<Line("No PET files provided", "")>>
    /\ pc' = "failed"
    /\ UNCHANGED <<fs, cohort, error_details>>
    /\ UNCHANGED maskvars
    /\ UNCHANGED loopvars
    /\ UNCHANGED runvars

\* calculate(non-empty list): lines 91-96
CalcBegin ==
    /\ pc = "ready"
    /\ loaded
    /\ pet_filepaths' = <<>>
    /\ suvr_values' = <<>>
    /\ filtered_files' = <<>>
    /\ errors' = <<>>
    /\ processed_files' = 0
    /\ last' = NoMeasure
    /\ pc' = "loop"
    /\ UNCHANGED <<fs, cohort, raised, error_details>>
    /\ UNCHANGED maskvars
    /\ UNCHANGED runvars

\* a loop iteration that lets the exception of an unreadable file escape
CalcStepN_abort(bound) ==
    /\ pc = "loop"
    /\ Len(pet_filepaths) < bound
    /\ \E filepath \in DOMAIN fs :
        LET r == ProcessFile(filepath, fs[filepath], roi_img, ref_img)
        IN  /\ pet_filepaths' = Append(pet_filepaths, filepath)
            /\ last' = r
            /\ IF r.ok
               THEN /\ suvr_values' = Append(suvr_values, r.suvr)
                    /\ filtered_files' = Append(filtered_files, filepath)
                    /\ processed_files' = processed_files + 1
                    /\ UNCHANGED <<errors, pc, raised>>
               ELSE IF r.err = "Error processing"
               THEN /\ raised' = <<ErrorLine(r)>>
                    /\ pc' = "failed"
                    /\ UNCHANGED <<errors, suvr_values, filtered_files, processed_files>>
               ELSE /\ errors' = Append(errors, ErrorLine(r))
                    /\ UNCHANGED <<suvr_values, filtered_files, processed_files, pc, raised>>
    /\ UNCHANGED <<fs, cohort, error_details>>
    /\ UNCHANGED maskvars
    /\ UNCHANGED runvars

\* a loop iteration that appends the file to the output list before validating
CalcStepN_earlyAppend(bound) ==
    /\ pc = "loop"
    /\ Len(pet_filepaths) < bound
    /\ \E filepath \in DOMAIN fs :
        LET r == ProcessFile(filepath, fs[filepath], roi_img, ref_img)
        IN  /\ pet_filepaths' = Append(pet_filepaths, filepath)
            /\ last' = r
            /\ filtered_files' = IF fs[filepath].exists THEN Append(filtered_files, filepath)
                                 ELSE filtered_files
            /\ IF r.ok
               THEN /\ suvr_values' = Append(suvr_values, r.suvr)
                    /\ processed_files' = processed_files + 1
                    /\ UNCHANGED errors
               ELSE /\ errors' = Append(errors, ErrorLine(r))
                    /\ UNCHANGED <<suvr_values, processed_files>>
    /\ UNCHANGED <<fs, pc, cohort, raised, error_details>>
    /\ UNCHANGED maskvars
    /\ UNCHANGED runvars

\* a loop iteration that keeps the resampled masks as the stored masks
CalcStepN_storesResampled(bound) ==
    /\ pc = "loop"
    /\ Len(pet_filepaths) < bound
    /\ \E filepath \in DOMAIN fs :
        LET r == ProcessFile(filepath, fs[filepath], roi_img, ref_img)
        IN  /\ pet_filepaths' = Append(pet_filepaths, filepath)
            /\ last' = r
            /\ roi_img' = IF r.roi_resampled # <<>> THEN r.roi_resampled ELSE roi_img
            /\ ref_img' = IF r.ref_resampled # <<>> THEN r.ref_resampled ELSE ref_img
            /\ IF r.ok
               THEN /\ suvr_values' = Append(suvr_values, r.suvr)
                    /\ filtered_files' = Append(filtered_files, filepath)
                    /\ processed_files' = processed_files + 1
                    /\ UNCHANGED errors
               ELSE /\ errors' = Append(errors, ErrorLine(r))
                    /\ UNCHANGED <<suvr_values, filtered_files, processed_files>>
    /\ UNCHANGED <<fs, pc, cohort, raised, error_details>>
    /\ UNCHANGED <<loaded, num_roi, num_ref>>
    /\ UNCHANGED runvars

\* a loop iteration that starts from the masks the previous iteration resampled
CalcStepN_carry(bound) ==
    /\ pc = "loop"
    /\ Len(pet_filepaths) < bound
    /\ \E filepath \in DOMAIN fs :
        LET r == ProcessFile(filepath, fs[filepath],
                             IF last.roi_resampled # <<>> THEN last.roi_resampled ELSE roi_img,
                             IF last.ref_resampled # <<>> THEN last.ref_resampled ELSE ref_img)
        IN  /\ pet_filepaths' = Append(pet_filepaths, filepath)
            /\ last' = r
            /\ IF r.ok
               THEN /\ suvr_values' = Append(suvr_values, r.suvr)
                    /\ filtered_files' = Append(filtered_files, filepath)
                    /\ processed_files' = processed_files + 1
                    /\ UNCHANGED errors
               ELSE /\ errors' = Append(errors, ErrorLine(r))
                    /\ UNCHANGED <<suvr_values, filtered_files, processed_files>>
    /\ UNCHANGED <<fs, pc, cohort, raised, error_details>>
    /\ UNCHANGED maskvars
    /\ UNCHANGED runvars

\* a loop iteration that drops a file that does not exist without a reason
CalcStepN_silentSkip(bound) ==
    /\ pc = "loop"
    /\ Len(pet_filepaths) < bound
    /\ \E filepath \in DOMAIN fs :
        \E r \in {ProcessFile(filepath, fs[filepath], roi_img, ref_img)} :
            /\ pet_filepaths' = Append(pet_filepaths, filepath)
            /\ last' = r
            /\ IF r.ok
               THEN /\ suvr_values' = Append(suvr_values, r.suvr)
                    /\ filtered_files' = Append(filtered_files, filepath)
                    /\ processed_files' = processed_files + 1
                    /\ UNCHANGED errors
               ELSE /\ errors' = IF r.err = "File not found" THEN errors
                                  ELSE Append(errors, ErrorLine(r))
                    /\ UNCHANGED <<suvr_values, filtered_files, processed_files>>
    /\ UNCHANGED <<fs, pc, cohort, raised, error_details>>
    /\ UNCHANGED maskvars
    /\ UNCHANGED runvars

\* a loop iteration that clamps the ratio to the typical band before storing it
CalcStepN_clamp(bound) ==
    /\ pc = "loop"
    /\ Len(pet_filepaths) < bound
    /\ \E filepath \in DOMAIN fs :
        \E r \in {ProcessFile(filepath, fs[filepath], roi_img, ref_img)} :
            /\ pet_filepaths' = Append(pet_filepaths, filepath)
            /\ last' = r
            /\ IF r.ok
               THEN /\ suvr_values' = Append(suvr_values,
                                        IF FLt(r.suvr, Fin(1, 2)) THEN Fin(1, 2)
                                        ELSE IF FLt(V(3), r.suvr) THEN V(3) ELSE r.suvr)
                    /\ filtered_files' = Append(filtered_files, filepath)
                    /\ processed_files' = processed_files + 1
                    /\ UNCHANGED errors
               ELSE /\ errors' = Append(errors, ErrorLine(r))
                    /\ UNCHANGED <<suvr_values, filtered_files, processed_files>>
    /\ UNCHANGED <<fs, pc, cohort, raised, error_details>>
    /\ UNCHANGED maskvars
    /\ UNCHANGED runvars

\* one iteration of `for filepath in pet_filepaths` (lines 98-216); the list
\* has at most `bound` entries
CalcStepN(bound) ==
    /\ pc = "loop"
    /\ Len(pet_filepaths) < bound
    /\ \E filepath \in DOMAIN fs :
        \E r \in {ProcessFile(filepath, fs[filepath], roi_img, ref_img)} :
            /\ pet_filepaths' = Append(pet_filepaths, filepath)
            /\ last' = r
            /\ IF r.ok
               THEN /\ suvr_values' = Append(suvr_values, r.suvr)
                    /\ filtered_files' = Append(filtered_files, filepath)
                    /\ processed_files' = processed_files + 1
                    /\ UNCHANGED errors
               ELSE /\ errors' = Append(errors, ErrorLine(r))
                    /\ UNCHANGED <<suvr_values, filtered_files, processed_files>>
    /\ UNCHANGED <<fs, pc, cohort, raised, error_details>>
    /\ UNCHANGED maskvars
    /\ UNCHANGED runvars

CalcStep == CalcStepN(MaxFiles)
CalcStepBatch == CalcStepN(MaxBatch)

\* lines 223-225 with the cap off by one
CappedDetails_offByOne(errs) ==
    IF Len(errs) >= DetailCap
    THEN SubSeq(errs, 1, DetailCap) \o <<Line(MoreText, Len(errs) - DetailCap)>>
    ELSE errs

\* lines 223-225: "\n".join(errors[:10]) and, past 10, the "...and N more" line
CappedDetails(errs) ==
    IF Len(errs) > DetailCap
    THEN SubSeq(errs, 1, DetailCap) \o <<Line(MoreText, Len(errs) - DetailCap)>>
    ELSE errs

\* the raise that fires whenever some file was skipped
CalcRaise_anyError ==
    /\ pc = "loop"
    /\ Len(pet_filepaths) >= 1
    /\ errors # <<>>
    /\ error_details' = CappedDetails(errors)
    /\ raised' = <<Line(NoValidText, Len(pet_filepaths))>>
    /\ pc' = "failed"
    /\ UNCHANGED <<fs, cohort>>
    /\ UNCHANGED maskvars
    /\ UNCHANGED loopvars
    /\ UNCHANGED runvars

\* end of the loop with no value: lines 219-227
CalcRaise ==
    /\ pc = "loop"
    /\ Len(pet_filepaths) >= 1
    /\ suvr_values = <<>>
    /\ error_details' = IF errors # <<>> THEN CappedDetails(errors) ELSE error_details
    /\ raised' = <<Line(NoValidText, Len(pet_filepaths))>>
    /\ pc' = "failed"
    /\ UNCHANGED <<fs, cohort>>
    /\ UNCHANGED maskvars
    /\ UNCHANGED loopvars
    /\ UNCHANGED runvars

\* end of the loop with a value: lines 229-235, and run_analysis lines 69 / 72
\* binding the result; the locals of calculate are gone
CalcReturn ==
    /\ pc = "loop"
    /\ Len(pet_filepaths) >= 1
    /\ suvr_values # <<>>
    /\ IF cohort = "AD"
       THEN /\ ad_files' = pet_filepaths
            /\ ad_suvr' = suvr_values
            /\ ad_valid_files' = filtered_files
            /\ cohort' = "YC"
            /\ pc' = "ready"
            /\ UNCHANGED <<yc_files, yc_suvr, yc_valid_files>>
       ELSE /\ yc_files' = pet_filepaths
            /\ yc_suvr' = suvr_values
            /\ yc_valid_files' = filtered_files
            /\ pc' = "done"
            /\ UNCHANGED <<cohort, ad_files, ad_suvr, ad_valid_files>>
    /\ pet_filepaths' = <<>>
    /\ suvr_values' = <<>>
    /\ filtered_files' = <<>>
    /\ errors' = <<>>
    /\ processed_files' = 0
    /\ last' = NoMeasure
    /\ UNCHANGED <<fs, raised, error_details>>
    /\ UNCHANGED maskvars

SUVRIdle ==
    /\ pc = "new"
    /\ cohort = "AD"
    /\ loaded = FALSE
    /\ roi_img = <<>>
    /\ ref_img = <<>>
    /\ num_roi = 0
    /\ num_ref = 0
    /\ pet_filepaths = <<>>
    /\ suvr_values = <<>>
    /\ filtered_files = <<>>
    /\ errors = <<>>
    /\ processed_files = 0
    /\ last = NoMeasure
    /\ raised = <<>>
    /\ error_details = <<>>
    /\ ad_files = <<>>
    /\ ad_suvr = <<>>
    /\ ad_valid_files = <<>>
    /\ yc_files = <<>>
    /\ yc_suvr = <<>>
    /\ yc_valid_files = <<>>

\* ------------------------------------------- _resample_mask called directly
VARIABLES
    rs_pc,      \* "ready", "done"
    rs_mask,    \* mask_img argument
    rs_target,  \* target_shape argument
    rs_out      \* the returned array

rsvars == <<rs_pc, rs_mask, rs_target, rs_out>>

\* longest axis of a mask or target shape
MaxAxis == 4
MaskVals == {V(0), V(1), V(2)}

Resample ==
    /\ rs_pc = "ready"
    /\ rs_out' = ResampleMask(rs_mask, rs_target)
    /\ rs_pc' = "done"
    /\ UNCHANGED <<rs_mask, rs_target>>

RSIdle ==
    /\ rs_pc = "ready"
    /\ rs_mask = <<V(1)>>
    /\ rs_target = 1
    /\ rs_out = <<>>

RSInit ==
    /\ rs_pc = "ready"
    /\ rs_mask \in SeqsUpTo(MaskVals, MaxAxis)
    /\ rs_target \in 1..MaxAxis
    /\ rs_out = <<>>

\* ------------------------------------------------------- the standard table
\* Text.  A str is a sequence of one-character strings, so that upper-casing,
\* substring search and prefix matching are computed, not assumed.
LowerLetters == <<"a", "b", "c", "d", "e", "f", "g", "h", "i", "j", "k", "l", "m",
                  "n", "o", "p", "q", "r", "s", "t", "u", "v", "w", "x", "y", "z">>
UpperLetters == <<"A", "B", "C", "D", "E", "F", "G", "H", "I", "J", "K", "L", "M",
                  "N", "O", "P", "Q", "R", "S", "T", "U", "V", "W", "X", "Y", "Z">>
DigitChars == <<"0", "1", "2", "3", "4", "5", "6", "7", "8", "9">>

\* str.upper() on one character
UpperChar(ch) ==
    IF \E i \in 1..26 : LowerLetters[i] = ch
    THEN UpperLetters[CHOOSE i \in 1..26 : LowerLetters[i] = ch]
    ELSE ch

\* str.upper()
Upper(s) == [i \in 1..Len(s) |-> UpperChar(s[i])]

\* kw in s
Contains(s, kw) ==
    \E i \in 0..(Len(s) - Len(kw)) : \A j \in 1..Len(kw) : s[i + j] = kw[j]

IsDigit(ch) == \E i \in 1..10 : DigitChars[i] = ch

\* re.match(prefix + r'\d+', s): the prefix at the start, then a digit
MatchesId(s, prefix) ==
    /\ Len(s) > Len(prefix)
    /\ \A j \in 1..Len(prefix) : s[j] = prefix[j]
    /\ IsDigit(s[Len(prefix) + 1])

\* str(i).zfill(width) for 0 <= i < 1000
RECURSIVE DecDigits(_)
DecDigits(i) ==
    IF i < 10 THEN <<DigitChars[i + 1]>>
    ELSE DecDigits(i \div 10) \o <<DigitChars[(i % 10) + 1]>>
ZFill(i, width) ==
    LET ds == DecDigits(i)
    IN  [j \in 1..(IF width > Len(ds) THEN width - Len(ds) ELSE 0) |-> "0"] \o ds

\* A DataFrame is the sequence of its columns; a column has a header, a dtype
\* (numeric or not) and one value per row: a number in a numeric column, a
\* str in another one (pandas keeps a text column as objects).
\* a cell of a text column
Txt(s) == [k |-> "str", s |-> s]
Col(name, numeric, vals) ==
    [name |-> name, numeric |-> numeric,
     vals |-> IF numeric THEN vals ELSE [r \in 1..Len(vals) |-> Txt(vals[r])]]
NRows(df) == IF df = <<>> THEN 0 ELSE Len(df[1].vals)
\* DataFrame.empty: any axis of length 0
IsEmptyFrame(df) == df = <<>> \/ NRows(df) = 0

\* numpy.linspace(start, stop, num)[i], 0 <= i < num
Linspace(start, stop, num, i) ==
    FAdd(start, FMul(Int2F(i), FDiv(FSub(stop, start), Int2F(num - 1))))

\* the 44 and 34 of _create_synthetic_data and _create_synthetic_values
ad_rows == 44
yc_rows == 34

\* PIBAnalyzer._create_synthetic_data(): the synthetic table
SyntheticData ==
    LET n == ad_rows + yc_rows
        IsAD(i) == i <= ad_rows
    IN  << Col(<<"S", "u", "b", "j", "e", "c", "t">>, FALSE,
               [i \in 1..n |-> IF IsAD(i) THEN <<"A", "D">> \o ZFill(i, 2)
                               ELSE <<"Y", "C">> \o ZFill(i - ad_rows + 100, 3)]),
           Col(<<"G", "r", "o", "u", "p">>, FALSE,
               [i \in 1..n |-> IF IsAD(i) THEN <<"A", "D">> ELSE <<"Y", "C">>]),
           Col(<<"S", "U", "V", "R">>, TRUE,
               [i \in 1..n |->
                   IF IsAD(i) THEN Linspace(Fin(3, 2), Fin(5, 2), ad_rows, i - 1)
                   ELSE Linspace(Fin(9, 10), Fin(11, 10), yc_rows, i - ad_rows - 1)]),
           Col(<<"C", "L">>, TRUE,
               [i \in 1..n |->
                   IF IsAD(i) THEN Linspace(Int2F(50), Int2F(150), ad_rows, i - 1)
                   ELSE Linspace(Int2F(-20), Int2F(20), yc_rows, i - ad_rows - 1)]) >>

\* 100 * (suvr - 1.0), elementwise
SyntheticCL(suvr) ==
    [i \in 1..Len(suvr) |-> FMul(Int2F(100), FSub(suvr[i], Int2F(1)))]

\* _create_synthetic_values() of PIBAnalyzer and of SupplementaryTable (the
\* two bodies are the same): ad_suvr, ad_cl, yc_suvr, yc_cl
SyntheticValues ==
    LET ad == [i \in 1..ad_rows |-> Linspace(Fin(3, 2), Fin(5, 2), ad_rows, i - 1)]
        yc == [i \in 1..yc_rows |-> Linspace(Fin(9, 10), Fin(11, 10), yc_rows, i - 1)]
    IN  [kind |-> "synthetic", how |-> "", ad_suvr |-> ad, ad_cl |-> SyntheticCL(ad),
         yc_suvr |-> yc, yc_cl |-> SyntheticCL(yc)]

\* tables a parser can return
TblFull ==
    << Col(<<"S", "u", "b", "j", "e", "c", "t">>, FALSE,
           << <<"A", "D", "0", "1">>, <<"A", "D", "0", "2">>,
              <<"P", "T", "0", "3">>, <<"P", "T", "0", "4">> >>),
       Col(<<"G", "r", "o", "u", "p">>, FALSE,
           << <<"A", "D">>, <<"N", "o", "r", "m", "a", "l">>,
              <<"c", "o", "n", "t", "r", "o", "l">>, <<"a", "d">> >>),
       Col(<<"S", "U", "V", "R">>, TRUE, <<V(2), V(1), Fin(11, 10), Fin(11, 5)>>),
       Col(<<"C", "L">>, TRUE, <<V(100), V(0), V(5), V(110)>>) >>
TblSubject ==
    << Col(<<"I", "D">>, FALSE,
           << <<"a", "d", "0", "1">>, <<"y", "c", "0", "2">>, <<"A", "D", "0", "3">> >>),
       Col(<<"v", "i", "s", "i", "t">>, TRUE, <<V(1), V(2), V(1)>>),
       Col(<<"R", "a", "t", "i", "o">>, TRUE, <<V(2), V(1), Fin(12, 5)>>),
       Col(<<"c", "e", "n", "t", "i", "l", "o", "i", "d">>, TRUE, <<V(90), V(2), V(120)>>) >>
TblPatients ==
    << Col(<<"I", "D">>, FALSE,
           << <<"P", "T", "0", "1">>, <<"A", "D", "0", "2">>, <<"S", "U", "B", "3">> >>),
       Col(<<"s", "u", "v">>, TRUE, <<V(2), V(1), V(1)>>),
       Col(<<"c", "l">>, TRUE, <<V(90), V(2), V(4)>>) >>
TblPlain ==
    << Col(<<"a">>, TRUE, <<V(2), Fin(5, 2), Fin(3, 2)>>),
       Col(<<"b">>, TRUE, <<V(50), V(60), V(70)>>),
       Col(<<"n", "o", "t", "e">>, FALSE, << <<"x">>, <<"y">>, <<"z">> >>) >>
TblOneRow ==
    << Col(<<"S", "U", "V", "R">>, TRUE, <<V(2)>>),
       Col(<<"C", "L">>, TRUE, <<V(100)>>) >>
TblTextHeader ==
    << Col(<<"s", "u", "v", "r", "_", "n", "o", "t", "e">>, FALSE, << <<"o", "k">>, <<"o", "k">> >>),
       Col(<<"x">>, TRUE, <<V(1), V(3)>>),
       Col(<<"y">>, TRUE, <<V(30), V(50)>>) >>
TblNoCL ==
    << Col(<<"S", "U", "V", "R">>, TRUE, <<V(2), V(1)>>),
       Col(<<"b", "i", "g">>, TRUE, <<V(500), V(700)>>),
       Col(<<"G", "r", "o", "u", "p">>, FALSE, << <<"A", "D">>, <<"Y", "C">> >>) >>
TblAge ==
    << Col(<<"n">>, TRUE, <<NaN, NaN>>),
       Col(<<"a", "g", "e">>, TRUE, <<V(70), V(72)>>),
       Col(<<"x">>, TRUE, <<NaN, V(2)>>),
       Col(<<"y">>, TRUE, <<V(40), V(-60)>>) >>
TblEmpty == << Col(<<"S", "U", "V", "R">>, TRUE, <<>>), Col(<<"C", "L">>, TRUE, <<>>) >>
TblOneCol == << Col(<<"S", "U", "V", "R">>, TRUE, <<V(2), V(1)>>) >>

Tables == {TblFull, TblSubject, TblPatients, TblPlain, TblOneRow, TblTextHeader,
           TblNoCL, TblAge, TblEmpty, TblOneCol}

\* what a parser does with the file: returns a table, raises ImportError (the
\* engine is not installed), or raises another exception
Parsed(t) == [kind |-> "ok", table |-> t]
NoEngine == [kind |-> "import_error", table |-> <<>>]
ParseFails == [kind |-> "fail", table |-> <<>>]
Absent == [kind |-> "absent", table |-> <<>>]

\* tables the workbook parsers and the CSV parser are run on
WorkbookTables == {TblFull, TblEmpty, TblOneCol}
CsvTables == {TblSubject, TblEmpty, TblOneCol}

\* the standard-data file: what pd.read_excel(engine='openpyxl'),
\* pd.read_excel(engine='xlrd') do with it, and what os.path.exists and
\* pd.read_csv do with the path filepath.replace('.xlsx', '.csv')
StdFiles ==
    [primary : {Parsed(t) : t \in WorkbookTables} \cup {NoEngine, ParseFails},
     alt : {Parsed(t) : t \in WorkbookTables} \cup {ParseFails},
     csv : {Parsed(t) : t \in CsvTables} \cup {ParseFails, Absent}]

\* the return of _load_standard_data: the table, the parsers that were run in
\* order, and whether the table is the synthetic one
LoadResult(df, tried, synthetic) == [data |-> df, tried |-> tried, synthetic |-> synthetic]

\* the except block of lines 308-321
CsvFallback(f, tried) ==
    IF f.csv.kind = "absent" THEN LoadResult(SyntheticData, tried, TRUE)
    ELSE IF f.csv.kind = "ok" THEN LoadResult(f.csv.table, tried \o <<"csv">>, FALSE)
    ELSE LoadResult(SyntheticData, tried \o <<"csv">>, TRUE)

\* the check of line 300
IsMalformed(df) == IsEmptyFrame(df) \/ Len(df) < 2

\* PIBAnalyzer._load_standard_data(filepath)
LoadStandardDataOf(f) ==
    IF f.primary.kind = "ok"
    THEN IF IsMalformed(f.primary.table)
         THEN LoadResult(SyntheticData, <<"openpyxl">>, TRUE)
         ELSE LoadResult(f.primary.table, <<"openpyxl">>, FALSE)
    ELSE IF f.primary.kind = "import_error"
    THEN IF f.alt.kind = "ok"
         THEN LoadResult(f.alt.table, <<"openpyxl", "xlrd">>, FALSE)
         ELSE CsvFallback(f, <<"openpyxl", "xlrd">>)
    ELSE CsvFallback(f, <<"openpyxl">>)

\* keywords and group / subject patterns, upper case
KwSUVR == << <<"S", "U", "V", "R">>, <<"S", "U", "V">>, <<"R", "A", "T", "I", "O">> >>
KwCL == << <<"C", "L">>, <<"C", "E", "N", "T", "I", "L", "O", "I", "D">> >>
PatAD == <<"A", "D">>
PatYC == <<"Y", "C">>
PatControls == << <<"Y", "C">>, <<"C", "O", "N", "T", "R", "O", "L">>,
                  <<"N", "O", "R", "M", "A", "L">> >>
PatSubject == << <<"A", "D">>, <<"Y", "C">>, <<"P", "T">>, <<"S", "U", "B">> >>

ContainsAny(s, kws) == \E k \in 1..Len(kws) : Contains(s, kws[k])

\* the first of the positions S that a scan in order finds, 0 (None) when
\* there is none
FirstIndex(S) == IF S = {} THEN 0 ELSE CHOOSE i \in S : \A j \in S : i <= j

\* np.nanmean(values[~np.isnan(values)]): NaN when no value is left
NanMean(vals) ==
    LET kept == SelectSeq(vals, LAMBDA x : ~IsNaN(x))
    IN  IF kept = <<>> THEN NaN ELSE FMean(kept)

InRange(lo, x, hi) == FLe(lo, x) /\ FLe(x, hi)

\* the group column of identify_columns (lines 80-89) and _find_group_column
HasBothGroups(col) ==
    /\ \E r \in 1..Len(col.vals) : Contains(Upper(col.vals[r].s), PatAD)
    /\ \E r \in 1..Len(col.vals) : ContainsAny(Upper(col.vals[r].s), PatControls)
GroupColumn(df) ==
    FirstIndex({c \in 1..Len(df) : ~df[c].numeric /\ HasBothGroups(df[c])})

\* the subject ID column of identify_columns (lines 92-101)
HasSubjectId(col) ==
    \E r \in 1..Len(col.vals) :
        \E k \in 1..Len(PatSubject) : MatchesId(Upper(col.vals[r].s), PatSubject[k])
SubjectColumn(df) ==
    FirstIndex({c \in 1..Len(df) : ~df[c].numeric /\ HasSubjectId(df[c])})

\* a column by header keyword (lines 104-112, 128-136): numeric columns only
NamedColumn(df, kws) ==
    FirstIndex({c \in 1..Len(df) : df[c].numeric /\ ContainsAny(Upper(df[c].name), kws)})

\* a column by the mean of its values (lines 115-125, 139-150)
RangeColumn(df, lo, hi, skip) ==
    FirstIndex({c \in 1..Len(df) :
        df[c].numeric /\ c # skip /\ InRange(lo, NanMean(df[c].vals), hi)})

\* the header scan comes first, the range scan only if it found nothing
PickColumn_rangeFirst(byName, byRange) == IF byRange # 0 THEN byRange ELSE byName
PickColumn(byName, byRange) == IF byName # 0 THEN byName ELSE byRange

\* SupplementaryTable.identify_columns(): column positions, 0 for None
IdentifyColumns(df) ==
    LET suvr == PickColumn(NamedColumn(df, KwSUVR),
                           RangeColumn(df, Fin(4, 5), V(3), 0))
        cl == PickColumn(NamedColumn(df, KwCL),
                         RangeColumn(df, V(-30), V(200), suvr))
    IN  [group |-> GroupColumn(df), subject |-> SubjectColumn(df),
         suvr |-> suvr, cl |-> cl, empty |-> FALSE]

\* PIBAnalyzer._find_column(df, possible_names, min_val, max_val): the first
\* keyword that some header contains decides, over columns of any dtype
FindColumn(df, kws, lo, hi) ==
    LET k == FirstIndex({i \in 1..Len(kws) :
                 \E c \in 1..Len(df) : Contains(Upper(df[c].name), kws[i])})
    IN  IF k # 0
        THEN FirstIndex({c \in 1..Len(df) : Contains(Upper(df[c].name), kws[k])})
        ELSE FirstIndex({c \in 1..Len(df) :
                 df[c].numeric /\ InRange(lo, NanMean(df[c].vals), hi)})

\* df.loc[mask, col].values: the values of the rows the mask selects, in order
RECURSIVE RowsWhereFrom(_, _, _)
RowsWhereFrom(vals, mask, r) ==
    IF r > Len(vals) THEN <<>>
    ELSE (IF mask[r] THEN <<vals[r]>> ELSE <<>>) \o RowsWhereFrom(vals, mask, r + 1)
RowsWhere(vals, mask) == RowsWhereFrom(vals, mask, 1)

\* values[:midpoint] and values[midpoint:]
FirstRows(vals, m) == [i \in 1..m |-> vals[i]]
RestRows(vals, m) == [i \in 1..(Len(vals) - m) |-> vals[m + i]]

\* what an extraction returns: the four arrays of the table, the synthetic
\* arrays, or (None, None, None, None); how names the branch of the
\* if / elif / else that split the rows
Groups(how, ad_s, ad_c, yc_s, yc_c) ==
    [kind |-> "table", how |-> how, ad_suvr |-> ad_s, ad_cl |-> ad_c,
     yc_suvr |-> yc_s, yc_cl |-> yc_c]
NoGroups == [kind |-> "none", how |-> ""]

\* the split of rows by a text column: AD rows, and control rows by the
\* patterns given
SplitBy(df, c, suvr, cl, controls, how) ==
    LET ad_mask == [r \in 1..NRows(df) |-> Contains(Upper(df[c].vals[r].s), PatAD)]
        yc_mask == [r \in 1..NRows(df) |-> ContainsAny(Upper(df[c].vals[r].s), controls)]
    IN  Groups(how, RowsWhere(df[suvr].vals, ad_mask), RowsWhere(df[cl].vals, ad_mask),
               RowsWhere(df[suvr].vals, yc_mask), RowsWhere(df[cl].vals, yc_mask))

\* the split by row position: the first len // 2 rows are AD
SplitMidpoint(df, suvr, cl) ==
    LET midpoint == NRows(df) \div 2
    IN  Groups("midpoint", FirstRows(df[suvr].vals, midpoint), FirstRows(df[cl].vals, midpoint),
               RestRows(df[suvr].vals, midpoint), RestRows(df[cl].vals, midpoint))

\* the check of lines 212-214 / 381-383
OrSynthetic_adOnly(g) ==
    IF Len(g.ad_suvr) = 0 THEN [SyntheticValues EXCEPT !.how = g.how] ELSE g
OrSynthetic(g) ==
    IF Len(g.ad_suvr) = 0 \/ Len(g.yc_suvr) = 0
    THEN [SyntheticValues EXCEPT !.how = g.how]
    ELSE g

\* the strategy of lines 178-209: group column, else subject column, else
\* midpoint
ChooseSplit_subjectFirst(df, columns) ==
    IF columns.subject # 0
    THEN SplitBy(df, columns.subject, columns.suvr, columns.cl, <<PatYC>>, "subject")
    ELSE IF columns.group # 0
    THEN SplitBy(df, columns.group, columns.suvr, columns.cl, PatControls, "group")
    ELSE SplitMidpoint(df, columns.suvr, columns.cl)
ChooseSplit(df, columns) ==
    IF columns.group # 0
    THEN SplitBy(df, columns.group, columns.suvr, columns.cl, PatControls, "group")
    ELSE IF columns.subject # 0
    THEN SplitBy(df, columns.subject, columns.suvr, columns.cl, <<PatYC>>, "subject")
    ELSE SplitMidpoint(df, columns.suvr, columns.cl)

\* SupplementaryTable.get_values_by_group() on self.data = tb (tb.has is
\* `self.data is not None`); fails: a statement of the try block raises
GetValuesByGroupOf(tb, fails) ==
    IF ~tb.has THEN NoGroups
    ELSE LET columns == IdentifyColumns(tb.df)
         IN  IF columns.suvr = 0 \/ columns.cl = 0 THEN NoGroups
             ELSE IF fails THEN SyntheticValues
             ELSE OrSynthetic(ChooseSplit(tb.df, columns))

\* PIBAnalyzer._extract_standard_values(std_data); fails: a statement of the
\* try block raises
ExtractStandardValuesOf(df, fails) ==
    LET suvr_col == FindColumn(df, KwSUVR, V(1), V(3))
        cl_col == FindColumn(df, KwCL, V(0), V(150))
        group_col == GroupColumn(df)
    IN  IF fails THEN SyntheticValues
        ELSE IF suvr_col = 0 \/ cl_col = 0 THEN SyntheticValues
        ELSE IF group_col # 0
        THEN OrSynthetic(SplitBy(df, group_col, suvr_col, cl_col, PatControls, "group"))
        ELSE OrSynthetic(SplitMidpoint(df, suvr_col, cl_col))

\* the file handed to SupplementaryTable.load_file: its extension, what the
\* first parser for that extension does with it (openpyxl for a workbook,
\* read_csv for .csv) and what xlrd does with it
TbFiles ==
    [ext : {"xlsx"},
     primary : {Parsed(t) : t \in Tables} \cup {NoEngine, ParseFails},
     alt : {Parsed(TblSubject), Parsed(TblEmpty), ParseFails}]
      \cup [ext : {"csv"}, primary : {Parsed(t) : t \in Tables} \cup {ParseFails},
            alt : {ParseFails}]
      \cup [ext : {"txt"}, primary : {ParseFails}, alt : {ParseFails}]

NoData == [has |-> FALSE, df |-> <<>>]

\* SupplementaryTable.load_file(file_path): self.data and the returned flag
LoadFileOf(f) ==
    LET got(t) == [data |-> [has |-> TRUE, df |-> t], ok |-> ~IsEmptyFrame(t)]
    IN  IF f.ext = "txt" THEN [data |-> NoData, ok |-> FALSE]
        ELSE IF f.primary.kind = "ok" THEN got(f.primary.table)
        ELSE IF f.ext = "xlsx" /\ f.primary.kind = "import_error" /\ f.alt.kind = "ok"
        THEN got(f.alt.table)
        ELSE [data |-> NoData, ok |-> FALSE]

VARIABLES
    std_pc,      \* "ready", "loaded", "extracted"
    std_file,    \* the file at standard_data_path
    std_data,    \* what _load_standard_data returned
    std_values,  \* what _extract_standard_values returned
    tb_pc,       \* "new", "loaded", "done"
    tb_file,     \* the file handed to load_file
    tb_data,     \* SupplementaryTable.data
    tb_ok,       \* the flag load_file returned
    tb_columns,  \* the dict identify_columns returned
    tb_values    \* what get_values_by_group returned

stdvars == <<std_pc, std_file, std_data, std_values>>
tbvars == <<tb_pc, tb_file, tb_data, tb_ok, tb_columns, tb_values>>

NoLoad == LoadResult(<<>>, <<>>, FALSE)
\* the {} identify_columns returns when no data is loaded
NoColumns == [group |-> 0, subject |-> 0, suvr |-> 0, cl |-> 0, empty |-> TRUE]

\* std_data = self._load_standard_data(standard_data_path)
LoadStandardData ==
    /\ std_pc = "ready"
    /\ std_data' = LoadStandardDataOf(std_file)
    /\ std_pc' = "loaded"
    /\ UNCHANGED <<std_file, std_values>>

\* self._extract_standard_values(std_data)
ExtractStandardValues ==
    /\ std_pc = "loaded"
    /\ \E fails \in BOOLEAN :
          std_values' = ExtractStandardValuesOf(std_data.data, fails)
    /\ std_pc' = "extracted"
    /\ UNCHANGED <<std_file, std_data>>

\* table.load_file(file_path)
LoadFile ==
    /\ tb_pc = "new"
    /\ tb_data' = LoadFileOf(tb_file).data
    /\ tb_ok' = LoadFileOf(tb_file).ok
    /\ tb_pc' = "loaded"
    /\ UNCHANGED <<tb_file, tb_columns, tb_values>>

\* table.identify_columns(): {} when no data is loaded
IdentifyColumnsCall ==
    /\ tb_pc \in {"new", "loaded"}
    /\ tb_columns' = IF tb_data.has THEN IdentifyColumns(tb_data.df) ELSE NoColumns
    /\ UNCHANGED <<tb_pc, tb_file, tb_data, tb_ok, tb_values>>

\* table.get_values_by_group()
GetValuesByGroup ==
    /\ tb_pc \in {"new", "loaded"}
    /\ \E fails \in BOOLEAN : tb_values' = GetValuesByGroupOf(tb_data, fails)
    /\ tb_pc' = "done"
    /\ UNCHANGED <<tb_file, tb_data, tb_ok, tb_columns>>

StdIdle ==
    /\ std_pc = "ready"
    /\ std_file = [primary |-> ParseFails, alt |-> ParseFails, csv |-> Absent]
    /\ std_data = NoLoad
    /\ std_values = NoGroups

StdInit ==
    /\ std_pc = "ready"
    /\ std_file \in StdFiles
    /\ std_data = NoLoad
    /\ std_values = NoGroups

TbIdle ==
    /\ tb_pc = "new"
    /\ tb_file = [ext |-> "txt", primary |-> ParseFails, alt |-> ParseFails]
    /\ tb_data = NoData
    /\ tb_ok = FALSE
    /\ tb_columns = NoColumns
    /\ tb_values = NoGroups

TbInit ==
    /\ tb_pc = "new"
    /\ tb_file \in TbFiles
    /\ tb_data = NoData
    /\ tb_ok = FALSE
    /\ tb_columns = NoColumns
    /\ tb_values = NoGroups

\* -------------------------------------------------------- agreement analysis
\* longest array handed to plot_correlation / plot_bland_altman
MaxPairs == 3

\* a[:m]
Trim(a, m) == [i \in 1..m |-> a[i]]
Min(a, b) == IF a < b THEN a ELSE b

\* ~(np.isnan(std) | np.isnan(calc)): the indices that are kept
KeepMask(std, calc) == [i \in 1..Len(std) |-> ~(IsNaN(std[i]) \/ IsNaN(calc[i]))]

\* a[mask]
RECURSIVE MaskedFrom(_, _, _)
MaskedFrom(a, mask, i) ==
    IF i > Len(a) THEN <<>>
    ELSE (IF mask[i] THEN <<a[i]>> ELSE <<>>) \o MaskedFrom(a, mask, i + 1)
ApplyMask(a, mask) == MaskedFrom(a, mask, 1)

AllEqual(a) == \A i \in 1..Len(a) : a[i] = a[1]

\* scipy.stats.linregress(x, y) on arrays of equal length >= 2: the entries of
\* the biased covariance matrix, r = 0 when a variance is 0, slope and
\* intercept; r_sq is r**2
Linregress(x, y) ==
    LET xmean == FMean(x)
        ymean == FMean(y)
        ssxm == FMean([i \in 1..Len(x) |-> FMul(FSub(x[i], xmean), FSub(x[i], xmean))])
        ssym == FMean([i \in 1..Len(y) |-> FMul(FSub(y[i], ymean), FSub(y[i], ymean))])
        ssxym == FMean([i \in 1..Len(x) |-> FMul(FSub(x[i], xmean), FSub(y[i], ymean))])
        b1 == FDiv(ssxym, ssxm)
    IN  [slope |-> b1,
         intercept |-> FSub(ymean, FMul(b1, xmean)),
         r_sq |-> IF ssxm = Zero \/ ssym = Zero THEN Zero
                  ELSE FDiv(FMul(ssxym, ssxym), FMul(ssxm, ssym))]

\* the fit of lines 163-167 is made with more than 1 point
EnoughToFit(clean) == Len(clean) > 1

NoFit == [fit |-> FALSE, raised |-> FALSE, std_clean |-> <<>>, calc_clean |-> <<>>,
          slope |-> Zero, intercept |-> Zero, r_sq |-> Zero]

\* the regression of plot_correlation (lines 87-95, 132-167) for one pair of
\* arrays; strict: this scipy raises ValueError when all x are identical
RegressionOf(std, calc, strict) ==
    LET m == Min(Len(std), Len(calc))
        s == Trim(std, m)
        c == Trim(calc, m)
        mask == KeepMask(s, c)
        sc == ApplyMask(s, mask)
        cc == ApplyMask(c, mask)
        base == [NoFit EXCEPT !.std_clean = sc, !.calc_clean = cc]
    IN  IF ~(EnoughToFit(sc) /\ EnoughToFit(cc)) THEN base
        ELSE IF strict /\ AllEqual(sc) THEN [base EXCEPT !.raised = TRUE]
        ELSE LET f == Linregress(sc, cc)
             IN  [base EXCEPT !.fit = TRUE, !.slope = f.slope,
                              !.intercept = f.intercept, !.r_sq = f.r_sq]

\* the largest k with k * k <= n, searched between lo and hi
RECURSIVE ISqrtIn(_, _, _)
ISqrtIn(n, lo, hi) ==
    IF lo >= hi THEN lo
    ELSE LET mid == (lo + hi + 1) \div 2
         IN  IF mid <= n \div mid THEN ISqrtIn(n, mid, hi) ELSE ISqrtIn(n, lo, mid - 1)

\* the resolution at which a square root is rounded
SqrtScale == 1000

\* np.sqrt: NaN for NaN and for negative values, inf for inf, otherwise the
\* root rounded down to 1/SqrtScale (exact on squares of such fractions)
FSqrt(x) ==
    IF IsNaN(x) \/ x = NInf THEN NaN
    ELSE IF x = PInf THEN PInf
    ELSE IF x.n < 0 THEN NaN
    ELSE LET q == (x.n * SqrtScale * SqrtScale) \div x.d
         IN  Fin(ISqrtIn(q, 0, q), SqrtScale)

\* np.std(a): the population standard deviation
FStd(a) ==
    LET m == FMean(a)
    IN  FSqrt(FMean([i \in 1..Len(a) |-> FMul(FSub(a[i], m), FSub(a[i], m))]))

\* the factor of the limits of agreement
LoaFactor == Fin(196, 100)

\* the Bland-Altman plot is made with more than 2 points
EnoughForAgreement(clean) == Len(clean) > 2

Insufficient == [enough |-> FALSE, std_clean |-> <<>>, calc_clean |-> <<>>,
                 means |-> <<>>, diffs |-> <<>>, mean_diff |-> Zero,
                 std_diff |-> Zero, upper_loa |-> Zero, lower_loa |-> Zero]

\* the statistics of plot_bland_altman (lines 821-852) for one pair of arrays
BlandAltmanOf(std, calc) ==
    LET m == Min(Len(std), Len(calc))
        s == Trim(std, m)
        c == Trim(calc, m)
        mask == KeepMask(s, c)
        sc == ApplyMask(s, mask)
        cc == ApplyMask(c, mask)
        base == [Insufficient EXCEPT !.std_clean = sc, !.calc_clean = cc]
    IN  IF ~(EnoughForAgreement(sc) /\ EnoughForAgreement(cc)) THEN base
        ELSE LET diffs == [i \in 1..Len(sc) |-> FSub(cc[i], sc[i])]
                 md == FMean(diffs)
                 sd == FStd(diffs)
             IN  [base EXCEPT
                    !.enough = TRUE,
                    !.means = [i \in 1..Len(sc) |-> FDiv(FAdd(sc[i], cc[i]), Int2F(2))],
                    !.diffs = diffs,
                    !.mean_diff = md,
                    !.std_diff = sd,
                    !.upper_loa = FAdd(md, FMul(LoaFactor, sd)),
                    !.lower_loa = FSub(md, FMul(LoaFactor, sd))]

\* the values of the drawn standard and calculated arrays
AgStdVals == {Int2F(1), Int2F(2), NaN}
AgCalcVals == {Int2F(2), Int2F(4), NaN, PInf}

\* the arrays of the documented example
ExampleStd == <<Int2F(1), Int2F(2), Int2F(3), Int2F(4)>>
ExampleCalc == <<Int2F(2), Int2F(4), Int2F(6), Int2F(8)>>

\* the arrays of length 0..n over S
ArraysUpTo(S, n) == {<<>>} \cup SeqsUpTo(S, n)

AgInputs ==
    (ArraysUpTo(AgStdVals, MaxPairs) \X ArraysUpTo(AgCalcVals, MaxPairs))
        \cup {<<ExampleStd, ExampleCalc>>}

VARIABLES
    ag_pc,      \* "ready", "correlated", "done"
    ag_std,     \* the standard array handed to the plotter
    ag_calc,    \* the calculated array handed to the plotter
    ag_reg,     \* the regression of plot_correlation
    ag_ba       \* the statistics of plot_bland_altman

agvars == <<ag_pc, ag_std, ag_calc, ag_reg, ag_ba>>

\* plotter.plot_correlation(...): the regression of one pair of arrays; the
\* installed scipy may or may not reject identical x values
PlotCorrelation ==
    /\ ag_pc = "ready"
    /\ \E strict \in BOOLEAN : ag_reg' = RegressionOf(ag_std, ag_calc, strict)
    /\ ag_pc' = "correlated"
    /\ UNCHANGED <<ag_std, ag_calc, ag_ba>>

\* plotter.plot_bland_altman(...), called next with the same arrays
PlotBlandAltman ==
    /\ ag_pc = "correlated"
    /\ ag_ba' = BlandAltmanOf(ag_std, ag_calc)
    /\ ag_pc' = "done"
    /\ UNCHANGED <<ag_std, ag_calc, ag_reg>>

AgIdle ==
    /\ ag_pc = "idle"
    /\ ag_std = <<>>
    /\ ag_calc = <<>>
    /\ ag_reg = NoFit
    /\ ag_ba = Insufficient

AgInit ==
    /\ ag_pc = "ready"
    /\ \E in \in AgInputs :
        /\ ag_std = in[1]
        /\ ag_calc = in[2]
    /\ ag_reg = NoFit
    /\ ag_ba = Insufficient

\* ------------------------------------------------- PIBAnalyzer._get_pet_files
\* the characters of the file names in code order
AsciiOrder == <<".">> \o DigitChars \o UpperLetters \o <<"_">> \o LowerLetters
Ord(ch) == CHOOSE i \in 1..Len(AsciiOrder) : AsciiOrder[i] = ch

\* a < b on str
StrLess(a, b) ==
    \E i \in 1..(Len(b)) :
        /\ \A j \in 1..(i - 1) : j <= Len(a) /\ a[j] = b[j]
        /\ Len(a) >= i - 1
        /\ (Len(a) < i \/ Ord(a[i]) < Ord(b[i]))

\* s.startswith(p), s.endswith(p)
StartsWith(s, p) == Len(s) >= Len(p) /\ \A j \in 1..Len(p) : s[j] = p[j]
EndsWith(s, p) ==
    Len(s) >= Len(p) /\ \A j \in 1..Len(p) : s[Len(s) - Len(p) + j] = p[j]

\* the name matches the pattern pre*suf
Fnmatch(s, pat) ==
    Len(s) >= Len(pat.pre) + Len(pat.suf) /\ StartsWith(s, pat.pre) /\ EndsWith(s, pat.suf)

ExtNii == <<".", "n", "i", "i">>
ExtGz == <<".", "n", "i", "i", ".", "g", "z">>

\* w*.nii, w*.nii.gz, wr*.nii, wr*.nii.gz
patterns ==
    << [pre |-> <<"w">>, suf |-> ExtNii], [pre |-> <<"w">>, suf |-> ExtGz],
       [pre |-> <<"w", "r">>, suf |-> ExtNii], [pre |-> <<"w", "r">>, suf |-> ExtGz] >>

CohortPrefixes ==
    {<<"w", "A", "D">>, <<"w", "Y", "C">>, <<"w", "r", "A", "D">>, <<"w", "r", "Y", "C">>}
SegPrefixes ==
    {<<"w", "c", "1">>, <<"w", "c", "2">>, <<"w", "c", "3">>, <<"w", "c", "4">>,
     <<"w", "c", "5">>, <<"w", "y", "_">>}

\* the names glob(pattern) returns for a directory
Glob(dir, pat) == {e.name : e \in {x \in dir : Fnmatch(x.name, pat)}}

\* how often a name stands in all_files
Matches(dir, name) ==
    Cardinality({i \in 1..Len(patterns) : name \in Glob(dir, patterns[i])})

Repeat(x, n) == [i \in 1..n |-> x]

\* sorted(...) of the matching regular files, each as often as it was matched
RECURSIVE SortedFiles(_, _)
SortedFiles(dir, names) ==
    IF names = {} THEN <<>>
    ELSE LET least == CHOOSE a \in names : \A b \in names : a = b \/ StrLess(a, b)
         IN  Repeat(least, Matches(dir, least)) \o SortedFiles(dir, names \ {least})

PetFiles(dir) ==
    SortedFiles(dir, {e.name : e \in {x \in dir : x.isfile /\ Matches(dir, x.name) > 0}})

\* the test of lines 272-274 on a basename
IsCohortFile(basename) ==
    /\ \E p \in CohortPrefixes : StartsWith(basename, p)
    /\ ~ \E p \in SegPrefixes : StartsWith(basename, p)

\* _get_pet_files(directory)
GetPetFilesOf(dir) ==
    LET all == PetFiles(dir)
        kept == SelectSeq(all, IsCohortFile)
    IN  IF kept = <<>> THEN all ELSE kept

Entry(name, isfile) == [name |-> name, isfile |-> isfile]

\* the entries a cohort directory is drawn from
EntryCatalogue ==
    { Entry(<<"w", "A", "D", "0", "1">> \o ExtNii, TRUE),
      Entry(<<"w", "r", "A", "D", "0", "2">> \o ExtNii, TRUE),
      Entry(<<"w", "Y", "C", "0", "3">> \o ExtGz, TRUE),
      Entry(<<"w", "r", "Y", "C", "0", "4">> \o ExtGz, TRUE),
      Entry(<<"w", "c", "1", "A", "D", "0", "1">> \o ExtNii, TRUE),
      Entry(<<"w", "y", "_", "A", "D", "0", "1">> \o ExtNii, TRUE),
      Entry(<<"w", "m", "e", "a", "n">> \o ExtNii, TRUE),
      Entry(<<"A", "D", "0", "5">> \o ExtNii, TRUE),
      Entry(<<"w", "A", "D", "0", "6", ".", "i", "m", "g">>, TRUE),
      Entry(<<"w", "A", "D", "0", "7">> \o ExtNii, FALSE) }

Directories == SUBSET EntryCatalogue

VARIABLES
    ls_pc,      \* "ready", "done"
    ls_dir,     \* the entries of the directory
    ls_files    \* the list _get_pet_files returned

lsvars == <<ls_pc, ls_dir, ls_files>>

GetPetFiles ==
    /\ ls_pc = "ready"
    /\ ls_files' = GetPetFilesOf(ls_dir)
    /\ ls_pc' = "done"
    /\ UNCHANGED ls_dir

LsIdle == ls_pc = "idle" /\ ls_dir = {} /\ ls_files = <<>>
LsInit == ls_pc = "ready" /\ ls_dir \in Directories /\ ls_files = <<>>

\* ------------------------------------ the loop of calculate run by workers
\* the iterations of the loop of calculate (lines 98-216) handed out to
\* workers: any worker takes any open position of the list, runs the loop body
\* on that file, and the outcomes are collected by input position
Workers == {"w1", "w2"}

\* the loop body (lines 99-216) tabulated: the locals at the end of the
\* iteration for every file of every directory under every mask pair
OutcomeTable ==
    [d \in Dirs \cup {DirBad} |->
        [m \in MaskPairs |->
            [f \in DOMAIN d |-> ProcessFile(f, d[f], m.roi, m.ref)]]]

\* the loop body for one file under the loaded masks
Outcome(f) == OutcomeTable[fs][[roi |-> roi_img, ref |-> ref_img]][f]

VARIABLES
    par_pc,      \* "idle", "run", "done"
    par_files,   \* the list handed to the workers
    par_work,    \* worker -> the position it is working on, 0 when free
    par_out,     \* position -> the locals at the end of its iteration
    par_order,   \* the positions in the order their iterations finished
    par_values, par_valid, par_errors   \* the collected outputs

parvars == <<par_pc, par_files, par_work, par_out, par_order,
             par_values, par_valid, par_errors>>

\* the outputs of the loop, from the outcomes taken by input position
RECURSIVE CollectFrom(_, _, _)
CollectFrom(out, i, acc) ==
    IF i > Len(out) THEN acc
    ELSE CollectFrom(out, i + 1,
            IF out[i].ok
            THEN [acc EXCEPT !.values = Append(@, out[i].suvr),
                             !.files = Append(@, out[i].file)]
            ELSE [acc EXCEPT !.errors = Append(@, ErrorLine(out[i]))])

Collect(out) == CollectFrom(out, 1, [values |-> <<>>, files |-> <<>>, errors |-> <<>>])

\* the list the sequential loop has consumed is handed to the workers
ParBegin ==
    /\ pc = "loop"
    /\ par_pc = "idle"
    /\ Len(pet_filepaths) >= 1
    /\ par_files' = pet_filepaths
    /\ par_out' = [i \in 1..Len(pet_filepaths) |-> NoMeasure]
    /\ par_work' = [w \in Workers |-> 0]
    /\ par_order' = <<>>
    /\ par_pc' = "run"
    /\ UNCHANGED <<par_values, par_valid, par_errors>>

\* a free worker takes an open position
ParTake ==
    /\ par_pc = "run"
    /\ \E w \in Workers, i \in 1..Len(par_files) :
        /\ par_work[w] = 0
        /\ \A v \in Workers : par_work[v] # i
        /\ \A j \in 1..Len(par_order) : par_order[j] # i
        /\ par_work' = [par_work EXCEPT ![w] = i]
    /\ UNCHANGED <<par_pc, par_files, par_out, par_order, par_values, par_valid, par_errors>>

\* a worker ends the loop body (lines 99-216) for the file at its position
ParFinish ==
    /\ par_pc = "run"
    /\ \E w \in Workers, i \in 1..Len(par_files) :
        /\ par_work[w] = i
        /\ \E filepath \in {par_files[i]} :
            par_out' = [par_out EXCEPT
                          ![i] = ProcessFile(filepath, fs[filepath], roi_img, ref_img)]
        /\ par_order' = Append(par_order, i)
        /\ par_work' = [par_work EXCEPT ![w] = 0]
    /\ UNCHANGED <<par_pc, par_files, par_values, par_valid, par_errors>>

\* every position is finished: the outcomes are collected by input position
ParCollect ==
    /\ par_pc = "run"
    /\ Len(par_order) = Len(par_files)
    /\ LET c == Collect(par_out)
       IN  /\ par_values' = c.values
           /\ par_valid' = c.files
           /\ par_errors' = c.errors
    /\ par_pc' = "done"
    /\ UNCHANGED <<par_files, par_work, par_out, par_order>>

ParIdle ==
    /\ par_pc = "idle"
    /\ par_files = <<>>
    /\ par_work = [w \in Workers |-> 0]
    /\ par_out = <<>>
    /\ par_order = <<>>
    /\ par_values = <<>>
    /\ par_valid = <<>>
    /\ par_errors = <<>>

\* ------------------------- _resample_mask on arrays of several axes
\* an array is its shape and its value at every index tuple (1-based)
RECURSIVE Cells(_)
Cells(shape) ==
    IF shape = <<>> THEN {<<>>}
    ELSE {<<i>> \o rest : i \in 1..Head(shape), rest \in Cells(Tail(shape))}

\* the 3 of lines 58 and 63
ZoomRank == 3

\* lines 45-50: one factor per pair of zip(target_shape, mask_img.shape)
ZoomFactors(target_shape, shape) ==
    [k \in 1..Min(Len(target_shape), Len(shape)) |->
        IF shape[k] = 0 THEN Int2F(1) ELSE Fin(target_shape[k], shape[k])]

\* lines 58-59: while len(zoom_factors) < 3: append 1
FillFactors(z) ==
    IF Len(z) < ZoomRank THEN z \o [i \in 1..(ZoomRank - Len(z)) |-> Int2F(1)] ELSE z

\* zoom_factors[:3]
FirstFactors(z) == SubSeq(z, 1, Min(Len(z), ZoomRank))

\* int(round(x)) for x >= 0: halves go to the even neighbour
RoundInt(x) ==
    LET fl == x.n \div x.d
        twice == 2 * (x.n - fl * x.d)
    IN  IF twice < x.d THEN fl
        ELSE IF twice > x.d THEN fl + 1
        ELSE IF fl % 2 = 0 THEN fl ELSE fl + 1

ZoomRaised == [raised |-> TRUE, shape |-> <<>>, at |-> <<>>]

\* scipy.ndimage.zoom(input, zoom, order=0, mode='nearest'): the factor
\* sequence must have the rank of the input; the output axis k has length
\* round(shape[k] * zoom[k]) and every output voxel is the input voxel nearest
\* to it; an input without voxels is either rejected or gives an output
\* without voxels (emptyOk)
ZoomNd(input, zoom, emptyOk) ==
    IF Len(zoom) # Len(input.shape) THEN ZoomRaised
    ELSE LET nout == [k \in 1..Len(zoom) |->
                         RoundInt(FMul(Int2F(input.shape[k]), zoom[k]))]
         IN  IF (\E k \in 1..Len(nout) : nout[k] = 0) /\ ~emptyOk THEN ZoomRaised
             ELSE [raised |-> FALSE, shape |-> nout,
                   at |-> [c \in Cells(nout) |->
                            input.at[[k \in 1..Len(c) |->
                                ZoomIndex(c[k] - 1, input.shape[k], nout[k]) + 1]]]]

\* lines 66-71: one (0, n) pair per pair of zip(target_shape, resampled.shape)
PadWidth(target_shape, shape) ==
    [k \in 1..Min(Len(target_shape), Len(shape)) |->
        IF target_shape[k] > shape[k] THEN target_shape[k] - shape[k] ELSE 0]

\* line 74: any(p[1] > 0 for p in pad_width)
NeedsPad(pad_width) == \E k \in 1..Len(pad_width) : pad_width[k] > 0

\* numpy.pad broadcasts pad_width to one pair per axis: a single pair serves
\* every axis, any other number of pairs than the rank raises
PadRaises(a, pad_width) == Len(pad_width) # Len(a.shape) /\ Len(pad_width) # 1

\* numpy.pad(a, pad_width, mode='constant', constant_values=0)
PadNd(a, pad_width) ==
    LET after == [k \in 1..Len(a.shape) |->
                     IF Len(pad_width) = 1 THEN pad_width[1] ELSE pad_width[k]]
        shape == [k \in 1..Len(a.shape) |-> a.shape[k] + after[k]]
    IN  [shape |-> shape,
         at |-> [c \in Cells(shape) |->
                    IF \A k \in 1..Len(c) : c[k] <= a.shape[k] THEN a.at[c] ELSE Zero]]

\* the except branch lets the exception escape
ResampleMaskNd_reraise(mask_img, target_shape, emptyOk) ==
    IF mask_img.shape = target_shape
    THEN [out |-> mask_img, failed |-> FALSE, raised |-> FALSE]
    ELSE \* lines 45-63
         LET z == ZoomNd(mask_img,
                         FirstFactors(FillFactors(ZoomFactors(target_shape, mask_img.shape))),
                         emptyOk)
             resampled == [shape |-> z.shape, at |-> z.at]
             pad_width == PadWidth(target_shape, z.shape)
         IN  IF z.raised \/ (NeedsPad(pad_width) /\ PadRaises(resampled, pad_width))
             THEN [out |-> mask_img, failed |-> TRUE, raised |-> TRUE]
             ELSE IF NeedsPad(pad_width)
             THEN [out |-> PadNd(resampled, pad_width), failed |-> FALSE, raised |-> FALSE]
             ELSE [out |-> resampled, failed |-> FALSE, raised |-> FALSE]

\* _resample_mask(mask_img, target_shape), lines 41-81: the returned array,
\* whether the except branch was taken, whether an exception left the method
ResampleMaskNd(mask_img, target_shape, emptyOk) ==
    IF mask_img.shape = target_shape
    THEN [out |-> mask_img, failed |-> FALSE, raised |-> FALSE]
    ELSE \* lines 45-63
         LET z == ZoomNd(mask_img,
                         FirstFactors(FillFactors(ZoomFactors(target_shape, mask_img.shape))),
                         emptyOk)
             resampled == [shape |-> z.shape, at |-> z.at]
             pad_width == PadWidth(target_shape, z.shape)
         IN  IF z.raised \/ (NeedsPad(pad_width) /\ PadRaises(resampled, pad_width))
             THEN [out |-> mask_img, failed |-> TRUE, raised |-> FALSE]
             ELSE IF NeedsPad(pad_width)
             THEN [out |-> PadNd(resampled, pad_width), failed |-> FALSE, raised |-> FALSE]
             ELSE [out |-> resampled, failed |-> FALSE, raised |-> FALSE]

\* longest axis of the arrays drawn
MaxSide == 2
\* numbers of axes drawn: one less and one more than the rank zoom is given
Ranks == (ZoomRank - 1)..(ZoomRank + 1)

ShapesOf(lo, hi) == UNION {[1..r -> lo..hi] : r \in Ranks}

RECURSIVE CellSum(_)
CellSum(c) == IF c = <<>> THEN 0 ELSE Head(c) + CellSum(Tail(c))

\* a mask of the given shape holding zeros, ones and twos
MaskOf(shape) == [shape |-> shape, at |-> [c \in Cells(shape) |-> V(CellSum(c) % 3)]]

VARIABLES
    nd_pc,      \* "ready", "done"
    nd_mask,    \* mask_img argument
    nd_target,  \* target_shape argument: the shape of a volume with voxels
    nd_out,     \* the returned array
    nd_failed,  \* the except branch of line 78 was taken
    nd_raised   \* an exception reached the caller

ndvars == <<nd_pc, nd_mask, nd_target, nd_out, nd_failed, nd_raised>>

ResampleNd ==
    /\ nd_pc = "ready"
    /\ \E emptyOk \in BOOLEAN :
        \E r \in {ResampleMaskNd(nd_mask, nd_target, emptyOk)} :
            /\ nd_out' = r.out
            /\ nd_failed' = r.failed
            /\ nd_raised' = r.raised
    /\ nd_pc' = "done"
    /\ UNCHANGED <<nd_mask, nd_target>>

NdIdle ==
    /\ nd_pc = "ready"
    /\ nd_mask = MaskOf(<<1, 1, 1>>)
    /\ nd_target = <<1, 1, 1>>
    /\ nd_out = MaskOf(<<1, 1, 1>>)
    /\ nd_failed = FALSE
    /\ nd_raised = FALSE

NdInit ==
    /\ nd_pc = "ready"
    /\ \E shape \in ShapesOf(0, MaxSide) : nd_mask = MaskOf(shape)
    /\ nd_target \in ShapesOf(1, MaxSide)
    /\ nd_out = MaskOf(<<1, 1, 1>>)
    /\ nd_failed = FALSE
    /\ nd_raised = FALSE

\* --------------------- run_analysis: the arrays of the agreement analysis
\* longest standard or computed array of a group
MaxGroup == 2

\* a[:m]
Slice(a, m) == SubSeq(a, 1, Min(m, Len(a)))

\* the groups' arrays joined without the cut to the common size
ConcatSized_whole(ad, yc, min_ad, min_yc) == ad \o yc

\* np.concatenate([ad[:min_ad_size], yc[:min_yc_size]]) of lines 171-174
ConcatSized(ad, yc, min_ad, min_yc) == Slice(ad, min_ad) \o Slice(yc, min_yc)

\* rows (SUVR, CL) of the reference groups and computed SUVR values
ADStdRows == {<<Fin(2, 1), V(100)>>, <<Fin(11, 5), V(120)>>}
YCStdRows == {<<Fin(1, 1), V(0)>>, <<Fin(11, 10), V(10)>>}
ADCalcVals == {Fin(12, 5), Fin(13, 5)}
YCCalcVals == {Fin(9, 10), Fin(6, 5)}

Column(rows, c) == [i \in 1..Len(rows) |-> rows[i][c]]

VARIABLES
    ra_pc,     \* "ready": before line 168; "done": after line 174
    ra_std,    \* ad_suvr_std, ad_cl_std, yc_suvr_std, yc_cl_std (line 120)
    ra_calc,   \* ad_suvr, yc_suvr (lines 69, 72) and ad_cl, yc_cl (line 93)
    min_ad_size, min_yc_size,
    combined_suvr_std, combined_suvr_calc, combined_cl_std, combined_cl_calc

ravars == <<ra_pc, ra_std, ra_calc, min_ad_size, min_yc_size,
            combined_suvr_std, combined_suvr_calc, combined_cl_std, combined_cl_calc>>

\* lines 168-174
CombineArrays ==
    /\ ra_pc = "ready"
    /\ \E m \in {Min(Len(ra_std.ad_suvr_std), Len(ra_calc.ad_suvr))},
          n \in {Min(Len(ra_std.yc_suvr_std), Len(ra_calc.yc_suvr))} :
        /\ min_ad_size' = m
        /\ min_yc_size' = n
        /\ combined_suvr_std' = ConcatSized(ra_std.ad_suvr_std, ra_std.yc_suvr_std, m, n)
        /\ combined_suvr_calc' = ConcatSized(ra_calc.ad_suvr, ra_calc.yc_suvr, m, n)
        /\ combined_cl_std' = ConcatSized(ra_std.ad_cl_std, ra_std.yc_cl_std, m, n)
        /\ combined_cl_calc' = ConcatSized(ra_calc.ad_cl, ra_calc.yc_cl, m, n)
    /\ ra_pc' = "done"
    /\ UNCHANGED <<ra_std, ra_calc>>

RaIdle ==
    /\ ra_pc = "idle"
    /\ ra_std = <<>>
    /\ ra_calc = <<>>
    /\ min_ad_size = 0
    /\ min_yc_size = 0
    /\ combined_suvr_std = <<>>
    /\ combined_suvr_calc = <<>>
    /\ combined_cl_std = <<>>
    /\ combined_cl_calc = <<>>

\* the standard arrays as _extract_standard_values returns them (both columns
\* cut by the same row mask, no group empty) and the computed arrays as
\* calculate and CLCalculator.calculate return them (no cohort empty)
RaInit ==
    /\ ra_pc = "ready"
    /\ \E ad \in SeqsUpTo(ADStdRows, MaxGroup), yc \in SeqsUpTo(YCStdRows, MaxGroup) :
        ra_std = [ad_suvr_std |-> Column(ad, 1), ad_cl_std |-> Column(ad, 2),
                  yc_suvr_std |-> Column(yc, 1), yc_cl_std |-> Column(yc, 2)]
    /\ \E ad \in SeqsUpTo(ADCalcVals, MaxGroup), yc \in SeqsUpTo(YCCalcVals, MaxGroup) :
        LET ycM == FMean(yc)
            sl == CLSlope(FMean(ad), ycM)
        IN  ra_calc = [ad_suvr |-> ad, yc_suvr |-> yc,
                       ad_cl |-> CLArray(ad, sl, ycM), yc_cl |-> CLArray(yc, sl, ycM)]
    /\ min_ad_size = 0
    /\ min_yc_size = 0
    /\ combined_suvr_std = <<>>
    /\ combined_suvr_calc = <<>>
    /\ combined_cl_std = <<>>
    /\ combined_cl_calc = <<>>

\* ------------------------------------------------------------ Worker.run
\* the worker threads started side by side
Threads == {"t1", "t2"}

\* how the call self.fn(*args, **kwargs) of line 63 ends: it returns a value,
\* raises an Exception, or raises outside the Exception hierarchy (SystemExit,
\* KeyboardInterrupt), which `except Exception` does not catch
TaskOutcomes ==
    { [kind |-> "returns", val |-> "table"], [kind |-> "returns", val |-> "none"],
      [kind |-> "raises", val |-> "no valid files"],
      [kind |-> "raises", val |-> "mask not found"],
      [kind |-> "exits", val |-> "exit"] }

NotCalled == [kind |-> "", val |-> ""]

Signal(sig, arg) == [sig |-> sig, arg |-> arg]

\* a returning task has the error signal emitted after the result signal
EmittedFor_both(o) ==
    IF o.kind = "returns" THEN <<Signal("result", o.val), Signal("error", o.val)>>
    ELSE IF o.kind = "raises" THEN <<Signal("error", o.val)>>
    ELSE <<>>

\* lines 66 and 72: the signal the outcome of the task sets off
EmittedFor(o) ==
    IF o.kind = "returns" THEN <<Signal("result", o.val)>>
    ELSE IF o.kind = "raises" THEN <<Signal("error", o.val)>>
    ELSE <<>>

VARIABLES
    wk_pc,         \* per thread: "new", "started", "called", "done"
    wk_task,       \* per thread: how the task ended
    wk_emitted,    \* per thread: the signals emitted, in order
    wk_exception,  \* per thread: Worker.exception ("" for None)
    wk_escaped     \* per thread: an exception left run

wkvars == <<wk_pc, wk_task, wk_emitted, wk_exception, wk_escaped>>

\* line 57
EmitStarted(t) ==
    /\ wk_pc[t] = "new"
    /\ wk_emitted' = [wk_emitted EXCEPT ![t] = Append(@, Signal("started", ""))]
    /\ wk_pc' = [wk_pc EXCEPT ![t] = "started"]
    /\ UNCHANGED <<wk_task, wk_exception, wk_escaped>>

\* lines 60-72: the task is called and ends
CallTask(t) ==
    /\ wk_pc[t] = "started"
    /\ \E o \in TaskOutcomes :
        /\ wk_task' = [wk_task EXCEPT ![t] = o]
        /\ wk_exception' = [wk_exception EXCEPT ![t] = IF o.kind = "raises" THEN o.val ELSE @]
        /\ wk_emitted' = [wk_emitted EXCEPT ![t] = @ \o EmittedFor(o)]
    /\ wk_pc' = [wk_pc EXCEPT ![t] = "called"]
    /\ UNCHANGED wk_escaped

\* lines 74-76, and the exception that was not caught leaving run
EmitFinished(t) ==
    /\ wk_pc[t] = "called"
    /\ wk_emitted' = [wk_emitted EXCEPT ![t] = Append(@, Signal("finished", ""))]
    /\ wk_escaped' = [wk_escaped EXCEPT ![t] = wk_task[t].kind = "exits"]
    /\ wk_pc' = [wk_pc EXCEPT ![t] = "done"]
    /\ UNCHANGED <<wk_task, wk_exception>>

\* Worker.__init__ (lines 45-51)
WkInit ==
    /\ wk_pc = [t \in Threads |-> "new"]
    /\ wk_task = [t \in Threads |-> NotCalled]
    /\ wk_emitted = [t \in Threads |-> <<>>]
    /\ wk_exception = [t \in Threads |-> ""]
    /\ wk_escaped = [t \in Threads |-> FALSE]

WkIdle == WkInit

\* ------------------------------------------------------------ specifications
\* the state of the standard-table part
auxvars == <<agvars, lsvars, parvars, ndvars, ravars, wkvars>>
AuxIdle == AgIdle /\ LsIdle /\ ParIdle /\ NdIdle /\ RaIdle /\ WkIdle

extvars == <<stdvars, tbvars, auxvars>>
ExtIdle == StdIdle /\ TbIdle /\ AuxIdle

vars == <<clvars, suvrvars, rsvars, extvars>>

CLIdle ==
    /\ clpc = "ready"
    /\ cl_ad_suvr = <<Fin(2, 1)>>
    /\ cl_yc_suvr = <<Fin(1, 1)>>
    /\ ad_cl = <<>>
    /\ yc_cl = <<>>
    /\ suvr_yc_mean = Zero
    /\ suvr_ad_mean = Zero
    /\ slope = Zero
    /\ cl_fallback = FALSE
    /\ cl_manual = FALSE

CLInit ==
    /\ clpc = "ready"
    /\ \E in \in CLInputs :
        /\ cl_ad_suvr = in[1]
        /\ cl_yc_suvr = in[2]
    /\ ad_cl = <<>>
    /\ yc_cl = <<>>
    /\ suvr_yc_mean = Zero
    /\ suvr_ad_mean = Zero
    /\ slope = Zero
    /\ cl_fallback = FALSE
    /\ cl_manual = FALSE

\* SUVR computation as run_analysis drives it: load_masks, calculate(AD list),
\* calculate(YC list)
Init == fs \in Dirs /\ SUVRIdle /\ CLIdle /\ RSIdle /\ ExtIdle

Next ==
    \/ (LoadMasks /\ UNCHANGED <<clvars, rsvars, extvars>>)
    \/ (LoadMasksRaises /\ UNCHANGED <<clvars, rsvars, extvars>>)
    \/ (CalculateUnloaded /\ UNCHANGED <<clvars, rsvars, extvars>>)
    \/ (CalcEmpty /\ UNCHANGED <<clvars, rsvars, extvars>>)
    \/ (CalcBegin /\ UNCHANGED <<clvars, rsvars, extvars>>)
    \/ (CalcStep /\ UNCHANGED <<clvars, rsvars, extvars>>)
    \/ (CalcRaise /\ UNCHANGED <<clvars, rsvars, extvars>>)
    \/ (CalcReturn /\ UNCHANGED <<clvars, rsvars, extvars>>)

Spec == Init /\ [][Next]_vars

\* a long list over a directory in which every file is skipped
InitBatch == fs = DirBad /\ SUVRIdle /\ CLIdle /\ RSIdle /\ ExtIdle

NextBatch ==
    \/ (LoadMasks /\ UNCHANGED <<clvars, rsvars, extvars>>)
    \/ (CalcBegin /\ UNCHANGED <<clvars, rsvars, extvars>>)
    \/ (CalcStepBatch /\ UNCHANGED <<clvars, rsvars, extvars>>)
    \/ (CalcRaise /\ UNCHANGED <<clvars, rsvars, extvars>>)

SpecBatch == InitBatch /\ [][NextBatch]_vars

\* CLCalculator.calculate and the manual block of run_analysis on drawn arrays
InitCL == CLInit /\ SUVRIdle /\ fs = DirA /\ RSIdle /\ ExtIdle

NextCL ==
    \/ (CLCalculate /\ UNCHANGED <<suvrvars, rsvars, extvars>>)
    \/ (CLManualFallback /\ UNCHANGED <<suvrvars, rsvars, extvars>>)

SpecCL == InitCL /\ [][NextCL]_vars

\* _resample_mask on drawn masks and target shapes
InitRS == RSInit /\ SUVRIdle /\ fs = DirA /\ CLIdle /\ ExtIdle

NextRS == Resample /\ UNCHANGED <<suvrvars, clvars, extvars>>

SpecRS == InitRS /\ [][NextRS]_vars

\* the rest of the pipeline at rest
CoreIdle == SUVRIdle /\ fs = DirA /\ CLIdle /\ RSIdle
corevars == <<clvars, suvrvars, rsvars>>

\* the standard data of run_analysis: _load_standard_data, then
\* _extract_standard_values
InitStd == StdInit /\ TbIdle /\ AuxIdle /\ CoreIdle

NextStd ==
    \/ (LoadStandardData /\ UNCHANGED <<tbvars, auxvars, corevars>>)
    \/ (ExtractStandardValues /\ UNCHANGED <<tbvars, auxvars, corevars>>)

SpecStd == InitStd /\ [][NextStd]_vars

\* a SupplementaryTable: load_file, identify_columns, get_values_by_group
InitTb == TbInit /\ StdIdle /\ AuxIdle /\ CoreIdle

NextTb ==
    \/ (LoadFile /\ UNCHANGED <<stdvars, auxvars, corevars>>)
    \/ (IdentifyColumnsCall /\ UNCHANGED <<stdvars, auxvars, corevars>>)
    \/ (GetValuesByGroup /\ UNCHANGED <<stdvars, auxvars, corevars>>)

SpecTb == InitTb /\ [][NextTb]_vars

\* the agreement analysis of _plot_correlation: plot_correlation, then
\* plot_bland_altman
InitAg == AgInit /\ LsIdle /\ ParIdle /\ NdIdle /\ RaIdle /\ WkIdle /\ StdIdle /\ TbIdle /\ CoreIdle

NextAg ==
    \/ (PlotCorrelation /\ UNCHANGED <<lsvars, parvars, ndvars, ravars, wkvars, stdvars, tbvars, corevars>>)
    \/ (PlotBlandAltman /\ UNCHANGED <<lsvars, parvars, ndvars, ravars, wkvars, stdvars, tbvars, corevars>>)

SpecAg == InitAg /\ [][NextAg]_vars

\* the file list of one cohort directory
InitLs == LsInit /\ AgIdle /\ ParIdle /\ NdIdle /\ RaIdle /\ WkIdle /\ StdIdle /\ TbIdle /\ CoreIdle

NextLs == GetPetFiles /\ UNCHANGED <<agvars, parvars, ndvars, ravars, wkvars, stdvars, tbvars, corevars>>

SpecLs == InitLs /\ [][NextLs]_vars

\* _resample_mask on drawn arrays of two to four axes
InitNd == NdInit /\ AgIdle /\ LsIdle /\ ParIdle /\ RaIdle /\ WkIdle /\ StdIdle /\ TbIdle /\ CoreIdle

NextNd == ResampleNd /\ UNCHANGED <<agvars, lsvars, parvars, ravars, wkvars, stdvars, tbvars, corevars>>

SpecNd == InitNd /\ [][NextNd]_vars

\* run_analysis from the size matching to the call of _plot_correlation
InitRa == RaInit /\ AgIdle /\ LsIdle /\ ParIdle /\ NdIdle /\ WkIdle /\ StdIdle /\ TbIdle /\ CoreIdle

NextRa ==
    CombineArrays /\ UNCHANGED <<agvars, lsvars, parvars, ndvars, wkvars, stdvars, tbvars, corevars>>

SpecRa == InitRa /\ [][NextRa]_vars

\* Worker.run on two threads; a thread that was started runs on, and a task
\* that has ended is followed by the finally block
InitWk == WkInit /\ AgIdle /\ LsIdle /\ ParIdle /\ NdIdle /\ RaIdle /\ StdIdle /\ TbIdle /\ CoreIdle

wkrest == <<agvars, lsvars, parvars, ndvars, ravars, stdvars, tbvars, corevars>>

NextWk ==
    \E t \in Threads :
        \/ (EmitStarted(t) /\ UNCHANGED wkrest)
        \/ (CallTask(t) /\ UNCHANGED wkrest)
        \/ (EmitFinished(t) /\ UNCHANGED wkrest)

SpecWk ==
    /\ InitWk
    /\ [][NextWk]_vars
    /\ \A t \in Threads : WF_vars(EmitFinished(t) /\ UNCHANGED wkrest)

\* the sequential loop of calculate, and the same list worked off by workers
seqrest == <<clvars, rsvars, stdvars, tbvars, agvars, lsvars, ndvars, ravars, wkvars>>

InitPar == fs \in Dirs /\ SUVRIdle /\ CLIdle /\ RSIdle /\ ExtIdle

NextPar ==
    \/ (LoadMasks /\ UNCHANGED <<seqrest, parvars>>)
    \/ (CalcBegin /\ par_pc = "idle" /\ UNCHANGED <<seqrest, parvars>>)
    \/ (CalcStep /\ par_pc = "idle" /\ UNCHANGED <<seqrest, parvars>>)
    \/ (ParBegin /\ UNCHANGED <<seqrest, suvrvars>>)
    \/ (ParTake /\ UNCHANGED <<seqrest, suvrvars>>)
    \/ (ParFinish /\ UNCHANGED <<seqrest, suvrvars>>)
    \/ (ParCollect /\ UNCHANGED <<seqrest, suvrvars>>)

SpecPar == InitPar /\ [][NextPar]_vars

\* ------------------------------------------------------------------ claims
\* C1: whenever |mean(adSUVR) - mean(ycSUVR)| >= 0.001, the returned arrays
\* have mean(ycCL) = 0 and mean(adCL) = 100; AD = [2.0, 2.2, 2.4] and
\* YC = [1.0, 1.05, 1.1] give ycMean 1.05, adMean 2.2, mean CL 100 and 0.
C1_Anchoring ==
    clpc = "done" =>
        LET adM == FMean(cl_ad_suvr)
            ycM == FMean(cl_yc_suvr)
        IN  /\ FLe(SlopeEps, FAbs(FSub(adM, ycM)))
                => FMean(yc_cl) = Zero /\ FMean(ad_cl) = Int2F(100)
            /\ (cl_ad_suvr = ExampleAD /\ cl_yc_suvr = ExampleYC)
                => /\ suvr_yc_mean = Fin(21, 20)
                   /\ suvr_ad_mean = Fin(11, 5)
                   /\ FMean(ad_cl) = Int2F(100)
                   /\ FMean(yc_cl) = Zero

C1_Witness ==
    /\ clpc = "done"
    /\ cl_ad_suvr = ExampleAD
    /\ cl_yc_suvr = ExampleYC
    /\ ~cl_fallback
    /\ FMean(ad_cl) = Int2F(100)
    /\ FMean(yc_cl) = Zero

\* C2 as stated: the slope is exactly 100 if and only if
\* |adMean - ycMean| < 0.001.
C2_SlopeHundredIffClose ==
    clpc = "done" =>
        (slope = DefaultSlope
            <=> FLt(FAbs(FSub(FMean(cl_ad_suvr), FMean(cl_yc_suvr))), SlopeEps))

\* C2 amended: the fallback branch is taken if and only if
\* |adMean - ycMean| < 0.001 and then the slope is 100; otherwise the slope is
\* 100 / (adMean - ycMean), negative for adMean < ycMean, and this quotient is
\* itself 100 exactly when adMean - ycMean = 1.  Both for CLCalculator.calculate
\* and for the manual block of run_analysis.
C2_FallbackRule ==
    clpc = "done" =>
        LET diff == FSub(FMean(cl_ad_suvr), FMean(cl_yc_suvr))
            close == FLt(FAbs(diff), SlopeEps)
        IN  /\ cl_fallback <=> close
            /\ close => slope = Int2F(100)
            /\ ~close => slope = FDiv(Int2F(100), diff)
            /\ (~close /\ FLt(diff, Zero)) => FLt(slope, Zero)
            /\ slope = Int2F(100) <=> (close \/ diff = Int2F(1))

C2_Witness ==
    /\ clpc = "done"
    /\ cl_fallback
    /\ suvr_ad_mean # suvr_yc_mean
    /\ slope = Int2F(100)

\* C3: adCL[i] = slope * (adSUVR[i] - ycMean) and ycCL[i] = slope *
\* (ycSUVR[i] - ycMean) for every i, with one slope and one ycMean; the outputs
\* have the inputs' length and order; ycMean and adMean are the input means;
\* the input arrays are not modified.
C3_Elementwise ==
    /\ [](clpc = "done" =>
            /\ Len(ad_cl) = Len(cl_ad_suvr)
            /\ Len(yc_cl) = Len(cl_yc_suvr)
            /\ suvr_yc_mean = FMean(cl_yc_suvr)
            /\ suvr_ad_mean = FMean(cl_ad_suvr)
            /\ \A i \in 1..Len(cl_ad_suvr) :
                  ad_cl[i] = FMul(slope, FSub(cl_ad_suvr[i], suvr_yc_mean))
            /\ \A i \in 1..Len(cl_yc_suvr) :
                  yc_cl[i] = FMul(slope, FSub(cl_yc_suvr[i], suvr_yc_mean)))
    /\ [][cl_ad_suvr' = cl_ad_suvr /\ cl_yc_suvr' = cl_yc_suvr]_vars

C3_Witness ==
    /\ clpc = "done"
    /\ Len(cl_ad_suvr) = 3
    /\ cl_ad_suvr[1] # cl_ad_suvr[2]
    /\ ad_cl[1] # ad_cl[2]
    /\ Len(yc_cl) = 2
    /\ yc_cl[1] # yc_cl[2]

\* what a list yields under the loaded masks
ValidFilesOf(list) == SelectSeq(list, LAMBDA f : Outcome(f).ok)
ValuesOf(list) ==
    LET v == ValidFilesOf(list) IN [i \in 1..Len(v) |-> Outcome(v[i]).suvr]
NoneValid(list) == \A i \in 1..Len(list) : ~Outcome(list[i]).ok

IsBinary(mask) == \A i \in 1..Len(mask) : mask[i] \in {V(0), V(1)}

\* pet values at the voxels where the mask is non-zero
RECURSIVE NonzeroFrom(_, _, _)
NonzeroFrom(pet, mask, i) ==
    IF i > Len(pet) THEN <<>>
    ELSE (IF mask[i] # Zero THEN <<pet[i]>> ELSE <<>>) \o NonzeroFrom(pet, mask, i + 1)
MeanOverMask(pet, mask) == FMean(NonzeroFrom(pet, mask, 1))

\* C4: every recorded SUVR is mean(volume over the voxels where the ROI mask is
\* non-zero) / mean(volume over the voxels where the reference mask is
\* non-zero) (stated for binary masks).
C4_MeanOverMaskVoxels ==
    (pc = "loop" /\ last.ok /\ IsBinary(roi_img) /\ IsBinary(ref_img)) =>
        last.suvr = FDiv(MeanOverMask(last.pet, last.roi_resampled),
                         MeanOverMask(last.pet, last.ref_resampled))

\* C5: a bad file never aborts the batch: a call that processed a list with at
\* least one valid file returns, with the values of all its valid files, and
\* the only failure the loop can end in is the one for no valid file at all.
C5_BadFileNeverAborts ==
    /\ pc = "loop" => suvr_values = ValuesOf(pet_filepaths)
    /\ (pc = "failed" /\ pet_filepaths # <<>>)
          => /\ raised = <<Line(NoValidText, Len(pet_filepaths))>>
             /\ NoneValid(pet_filepaths)
    /\ ad_files # <<>> => ad_suvr = ValuesOf(ad_files)
    /\ yc_files # <<>> => yc_suvr = ValuesOf(yc_files)

C5_Witness ==
    /\ ad_files = <<"wAD04.nii", "wAD01.nii">>
    /\ ad_suvr = <<V(2)>>
    /\ yc_files = <<"wAD02.nii", "wAD03.nii">>
    /\ pc = "done"
    /\ Len(yc_suvr) = 1

C8_ParallelOutputs ==
    /\ pc = "loop" =>
          /\ Len(suvr_values) = Len(filtered_files)
          /\ processed_files = Len(suvr_values)
          /\ filtered_files = ValidFilesOf(pet_filepaths)
    /\ Len(ad_suvr) = Len(ad_valid_files)
    /\ Len(yc_suvr) = Len(yc_valid_files)
    /\ \A i \in 1..Len(ad_valid_files) : ad_suvr[i] = Outcome(ad_valid_files[i]).suvr
    /\ \A i \in 1..Len(yc_valid_files) : yc_suvr[i] = Outcome(yc_valid_files[i]).suvr
    /\ ad_valid_files = ValidFilesOf(ad_files)
    /\ yc_valid_files = ValidFilesOf(yc_files)

C8_Witness ==
    /\ pc = "done"
    /\ ad_files = <<"wrAD06.nii", "wrAD09.nii">>
    /\ ad_valid_files = <<"wrAD09.nii">>
    /\ ad_suvr = <<Fin(3, 2)>>
    /\ yc_files = <<"wrAD08.nii", "wrAD08.nii">>
    /\ Len(yc_valid_files) = 2

\* the iteration got as far as the sums of lines 171-172
ReachedSums(r) ==
    r.file # "" /\ r.err \in {"", "Zero or negative reference mean",
                              "Zero reference SUV", "Invalid SUVR value"}

\* C9: every recorded SUVR was computed with a reference mean > 0 and no
\* division by a reference mean <= 0 happens; a masked-sum/count reference mean
\* <= 0 makes the computation retry with the mean of the volume over
\* reference-mask > 0, and the file is skipped when that mean is <= 0 too.
C9_PositiveReference ==
    pc = "loop" =>
        /\ last.ok => last.divided
        /\ last.divided =>
              /\ FLt(Zero, last.suv_ref)
              /\ last.suvr = FDiv(last.suv_roi, last.suv_ref)
        /\ ReachedSums(last) =>
              (last.retried <=> FLe(MaskedMean(last.ref_sum, last.num_ref), Zero))
        /\ (ReachedSums(last) /\ last.retried) =>
              /\ last.ref_mean = FMean(WherePositive(last.pet, last.ref_resampled))
              /\ FLe(last.ref_mean, Zero) =>
                    ~last.ok /\ ~last.divided
                             /\ last.err = "Zero or negative reference mean"
              /\ last.divided => last.suv_ref = last.ref_mean

C9_Witness ==
    /\ pc = "loop"
    /\ last.retried
    /\ last.ok
    /\ FLe(last.ref_sum, Zero)
    /\ FLt(Zero, last.suv_ref)

\* C10: _resample_mask returns the mask with every voxel unchanged whenever
\* mask.shape == targetShape.
C10_ResampleIdentity ==
    (rs_pc = "done" /\ Len(rs_mask) = rs_target) =>
        /\ Len(rs_out) = Len(rs_mask)
        /\ \A i \in 1..Len(rs_mask) : rs_out[i] = rs_mask[i]

C10_Witness ==
    /\ rs_pc = "done"
    /\ Len(rs_mask) = rs_target
    /\ rs_target = 3
    /\ rs_mask = <<V(2), V(0), V(1)>>
    /\ rs_out = rs_mask

\* C11: a standard-table file that no parser can read (and no CSV beside it)
\* makes _load_standard_data return the synthetic table: 44 AD rows then 34 YC
\* rows, AD SUVR = linspace(1.5, 2.5, 44), YC SUVR = linspace(0.9, 1.1, 34),
\* and CL = 100 * (SUVR - 1.0) in every row.
C11_SyntheticTable ==
    (std_pc # "ready" /\ std_file.primary.kind = "fail" /\ std_file.csv.kind = "absent") =>
        LET t == std_data.data
        IN  /\ Len(t) = 4
            /\ NRows(t) = 44 + 34
            /\ \A i \in 1..44 :
                  /\ t[2].vals[i] = Txt(<<"A", "D">>)
                  /\ t[3].vals[i] = Linspace(Fin(3, 2), Fin(5, 2), 44, i - 1)
            /\ \A i \in 1..34 :
                  /\ t[2].vals[44 + i] = Txt(<<"Y", "C">>)
                  /\ t[3].vals[44 + i] = Linspace(Fin(9, 10), Fin(11, 10), 34, i - 1)
            /\ \A i \in 1..(44 + 34) :
                  t[4].vals[i] = FMul(Int2F(100), FSub(t[3].vals[i], Int2F(1)))

\* position of a parser in the chain
ChainRank(parser) == CASE parser = "openpyxl" -> 1 [] parser = "xlrd" -> 2 [] OTHER -> 3
Tried(parser) == \E i \in 1..Len(std_data.tried) : std_data.tried[i] = parser

\* C12: the parsers run in the order primary, alternate engine, CSV sibling,
\* each only after the ones before it failed, and a parsed table that is
\* empty or has fewer than 2 columns is never returned (the synthetic table
\* replaces it), whichever parser produced it.
C12_FallbackChain ==
    std_pc # "ready" =>
        /\ \A i, j \in 1..Len(std_data.tried) :
              i < j => ChainRank(std_data.tried[i]) < ChainRank(std_data.tried[j])
        /\ Tried("openpyxl")
        /\ Tried("xlrd") => std_file.primary.kind # "ok"
        /\ Tried("csv") => /\ std_file.primary.kind # "ok"
                           /\ Tried("xlrd") => std_file.alt.kind # "ok"
        /\ ~IsEmptyFrame(std_data.data)
        /\ Len(std_data.data) >= 2

\* the columns of df that a target's keywords or range pick out
HeaderMatches(df, c, kws) == \E k \in 1..Len(kws) : Contains(Upper(df[c].name), kws[k])
MeanWithin(df, c, lo, hi) ==
    /\ df[c].numeric
    /\ \E r \in 1..Len(df[c].vals) : ~IsNaN(df[c].vals[r])
    /\ FLe(lo, NanMean(df[c].vals)) /\ FLe(NanMean(df[c].vals), hi)
IsFirst(c, S) == c \in S /\ \A j \in S : j >= c

\* C13 as stated: a column whose header contains a keyword of the target is
\* chosen before any range-based choice, and only when no header matches is
\* the first numeric column with its mean in the target's range chosen.
C13_HeaderBeforeRange ==
    (tb_data.has /\ ~tb_columns.empty) =>
        LET df == tb_data.df
            n == Len(df)
        IN  /\ (\E c \in 1..n : HeaderMatches(df, c, KwSUVR))
                  => tb_columns.suvr # 0 /\ HeaderMatches(df, tb_columns.suvr, KwSUVR)
            /\ (\E c \in 1..n : HeaderMatches(df, c, KwCL))
                  => tb_columns.cl # 0 /\ HeaderMatches(df, tb_columns.cl, KwCL)

\* C13 amended: identify_columns looks at numeric columns only.  For each
\* target the first numeric column whose header contains a keyword of the
\* target (case-insensitively) is chosen; only when no numeric column's header
\* matches, the first numeric column whose mean lies in the target's range is
\* chosen (SUVR [0.8, 3.0]; CL [-30, 200], skipping the SUVR column); else none.
C13_NumericHeaderBeforeRange ==
    (tb_data.has /\ ~tb_columns.empty) =>
        LET df == tb_data.df
            n == Len(df)
            NamedS(c) == df[c].numeric /\ HeaderMatches(df, c, KwSUVR)
            NamedC(c) == df[c].numeric /\ HeaderMatches(df, c, KwCL)
            RangeS(c) == MeanWithin(df, c, Fin(4, 5), V(3))
            RangeC(c) == c # tb_columns.suvr /\ MeanWithin(df, c, V(-30), V(200))
        IN  /\ IF \E c \in 1..n : NamedS(c)
               THEN IsFirst(tb_columns.suvr, {c \in 1..n : NamedS(c)})
               ELSE IF \E c \in 1..n : RangeS(c)
               THEN IsFirst(tb_columns.suvr, {c \in 1..n : RangeS(c)})
               ELSE tb_columns.suvr = 0
            /\ IF \E c \in 1..n : NamedC(c)
               THEN IsFirst(tb_columns.cl, {c \in 1..n : NamedC(c)})
               ELSE IF \E c \in 1..n : RangeC(c)
               THEN IsFirst(tb_columns.cl, {c \in 1..n : RangeC(c)})
               ELSE tb_columns.cl = 0
            /\ df = TblFull => tb_columns.suvr = 3
            /\ df = TblPlain => tb_columns.suvr = 1

C13_Witness ==
    /\ ~tb_columns.empty
    /\ tb_data.df = TblTextHeader
    /\ tb_columns.suvr = 2
    /\ tb_columns.cl = 3

\* what a split returned, without the strategy tag
Arrays(g) == <<g.ad_suvr, g.ad_cl, g.yc_suvr, g.yc_cl>>
HasGroupColumn(df) ==
    \E c \in 1..Len(df) :
        /\ ~df[c].numeric
        /\ \E r \in 1..NRows(df) : Contains(Upper(df[c].vals[r].s), PatAD)
        /\ \E r \in 1..NRows(df) : ContainsAny(Upper(df[c].vals[r].s), PatControls)
HasSubjectColumn(df) ==
    \E c \in 1..Len(df) :
        /\ ~df[c].numeric
        /\ \E r \in 1..NRows(df) : \E k \in 1..Len(PatSubject) :
              MatchesId(Upper(df[c].vals[r].s), PatSubject[k])

IsSyntheticArrays(g) ==
    /\ Len(g.ad_suvr) = 44 /\ Len(g.ad_cl) = 44
    /\ Len(g.yc_suvr) = 34 /\ Len(g.yc_cl) = 34
    /\ \A i \in 1..44 :
          /\ g.ad_suvr[i] = Linspace(Fin(3, 2), Fin(5, 2), 44, i - 1)
          /\ g.ad_cl[i] = FMul(Int2F(100), FSub(g.ad_suvr[i], Int2F(1)))
    /\ \A i \in 1..34 :
          /\ g.yc_suvr[i] = Linspace(Fin(9, 10), Fin(11, 10), 34, i - 1)
          /\ g.yc_cl[i] = FMul(Int2F(100), FSub(g.yc_suvr[i], Int2F(1)))

FinitePairs(std, calc) ==
    LET m == Min(Len(std), Len(calc))
    IN  [i \in 1..m |-> IsFinite(std[i]) /\ IsFinite(calc[i])]

\* sum over the cleaned pairs of w[i] * (y[i] - a - b * x[i])
Residual(x, y, a, b, w) ==
    FSum([i \in 1..Len(x) |-> FMul(w[i], FSub(FSub(y[i], a), FMul(b, x[i])))])

Ones(n) == [i \in 1..n |-> Int2F(1)]

\* a and b solve the normal equations of least squares on (x, y)
IsLeastSquares(x, y, a, b) ==
    /\ Residual(x, y, a, b, Ones(Len(x))) = Zero
    /\ Residual(x, y, a, b, x) = Zero

\* n * sum(u * v) - sum(u) * sum(v)
CrossSum(u, v) ==
    FSub(FMul(Int2F(Len(u)), FSum([i \in 1..Len(u) |-> FMul(u[i], v[i])])),
         FMul(FSum(u), FSum(v)))

\* q is the squared Pearson correlation of (x, y), taken as 0 when y is constant
IsSquaredPearson(x, y, q) ==
    IF CrossSum(y, y) = Zero THEN q = Zero
    ELSE FMul(q, FMul(CrossSum(x, x), CrossSum(y, y))) = FMul(CrossSum(x, y), CrossSum(x, y))

\* C16 as stated: after the regression the cleaned arrays are exactly the
\* pairs in which both values are finite, a fit exists only with at least 2
\* such pairs, the fit is the least-squares line with r_sq the squared Pearson
\* correlation, and the documented example gives slope 2, intercept 0, r_sq 1
C16_Regression ==
    ag_pc \in {"correlated", "done"} =>
        LET keep == FinitePairs(ag_std, ag_calc)
            m == Len(keep)
        IN  /\ ag_reg.std_clean = ApplyMask(Trim(ag_std, m), keep)
            /\ ag_reg.calc_clean = ApplyMask(Trim(ag_calc, m), keep)
            /\ ag_reg.fit => Len(ag_reg.std_clean) >= 2
            /\ ag_reg.fit =>
                /\ IsLeastSquares(ag_reg.std_clean, ag_reg.calc_clean,
                                  ag_reg.intercept, ag_reg.slope)
                /\ IsSquaredPearson(ag_reg.std_clean, ag_reg.calc_clean, ag_reg.r_sq)
            /\ (ag_std = ExampleStd /\ ag_calc = ExampleCalc) =>
                /\ ag_reg.fit
                /\ ag_reg.slope = Int2F(2)
                /\ ag_reg.intercept = Zero
                /\ ag_reg.r_sq = Int2F(1)

\* s is the population standard deviation of a, to the resolution of the root
IsStdOf(a, s) ==
    LET m == FMean(a)
        var == FMean([i \in 1..Len(a) |-> FMul(FSub(a[i], m), FSub(a[i], m))])
        next == FAdd(s, Fin(1, SqrtScale))
    IN  /\ FLe(Zero, s)
        /\ FLe(FMul(s, s), var)
        /\ FLt(var, FMul(next, next))

\* C17 as stated: after the Bland-Altman step the cleaned arrays are the
\* pairs of the trimmed arrays in which both values are finite; with fewer
\* than 3 of them the step reports insufficient data; with 3 or more it has
\* diff = calc - std and mean = (std + calc) / 2 per pair and the limits
\* meanDiff -+ 1.96 * stdDiff, with lower <= meanDiff <= upper
C17_BlandAltman ==
    ag_pc = "done" =>
        LET keep == FinitePairs(ag_std, ag_calc)
            m == Len(keep)
            sc == ApplyMask(Trim(ag_std, m), keep)
            cc == ApplyMask(Trim(ag_calc, m), keep)
        IN  /\ ag_ba.std_clean = sc
            /\ ag_ba.calc_clean = cc
            /\ ag_ba.enough <=> Len(sc) >= 3
            /\ ag_ba.enough =>
                /\ ag_ba.diffs = [i \in 1..Len(sc) |-> FSub(cc[i], sc[i])]
                /\ ag_ba.means = [i \in 1..Len(sc) |-> FDiv(FAdd(sc[i], cc[i]), Int2F(2))]
                /\ ag_ba.mean_diff = FMean(ag_ba.diffs)
                /\ IsStdOf(ag_ba.diffs, ag_ba.std_diff)
                /\ ag_ba.lower_loa = FSub(ag_ba.mean_diff, FMul(Fin(196, 100), ag_ba.std_diff))
                /\ ag_ba.upper_loa = FAdd(ag_ba.mean_diff, FMul(Fin(196, 100), ag_ba.std_diff))
                /\ FLe(ag_ba.lower_loa, ag_ba.mean_diff)
                /\ FLe(ag_ba.mean_diff, ag_ba.upper_loa)

\* C18 as stated: every returned file carries the normalization prefix w, and
\* none starts with a segmentation prefix (wc1..wc5, wy_), whatever the
\* directory holds
C18_NoSegmentationFile ==
    ls_pc = "done" =>
        \A i \in 1..Len(ls_files) :
            /\ StartsWith(ls_files[i], <<"w">>)
            /\ ~ \E p \in SegPrefixes : StartsWith(ls_files[i], p)

\* the stored masks are a pair load_masks can have read, with its counts
MasksAsLoaded ==
    /\ [roi |-> roi_img, ref |-> ref_img] \in MaskPairs
    /\ num_roi = CountNonzero(roi_img)
    /\ num_ref = CountNonzero(ref_img)

\* C19: once load_masks has stored the masks no step of any calculate call
\* changes them, their shapes or their non-zero counts, and the YC result is
\* what the YC list yields under the masks as loaded, whatever the AD call
\* processed before it
C19_MasksReadOnly ==
    /\ [](loaded => MasksAsLoaded)
    /\ []((loaded /\ MasksAsLoaded /\ pc = "done") =>
            /\ yc_suvr = ValuesOf(yc_files)
            /\ yc_valid_files = ValidFilesOf(yc_files))
    /\ [][loaded => /\ loaded'
                    /\ roi_img' = roi_img
                    /\ ref_img' = ref_img
                    /\ Len(roi_img') = Len(roi_img)
                    /\ Len(ref_img') = Len(ref_img)
                    /\ num_roi' = num_roi
                    /\ num_ref' = num_ref]_vars

\* both calls returned; the AD call cleaned NaNs in one file and resampled the
\* masks for another, the YC call skipped a file
C19_Witness ==
    /\ pc = "done"
    /\ fs = DirC
    /\ ad_files = <<"wrAD07.nii", "wrAD09.nii">>
    /\ Len(ad_suvr) = 2
    /\ yc_files = <<"wrAD06.nii", "wrAD09.nii">>
    /\ yc_suvr = <<Fin(3, 2)>>
    /\ roi_img = <<V(1), V(1), V(0), V(0)>>
    /\ num_roi = 2

WasLoaded(r) == r.pet # <<>>

\* C21: every input file of calculate ends in exactly one of two outcomes, a
\* value or a skip reason: an iteration that records a value adds no reason,
\* an iteration that skips adds exactly one reason and no value, so that
\* number of values + number of reasons = number of files; a file that does
\* not exist is skipped with the file-not-found reason without being loaded.
C21_OneOutcomePerFile ==
    /\ [](Len(suvr_values) + Len(errors) = Len(pet_filepaths))
    /\ []((pc = "loop" /\ last.file # "") =>
            /\ last.ok <=> last.err = ""
            /\ ~last.ok => errors[Len(errors)] = ErrorLine(last)
            /\ last.ok => suvr_values[Len(suvr_values)] = last.suvr
            /\ ~fs[last.file].exists <=> last.err = "File not found"
            /\ ~fs[last.file].exists => ~last.ok /\ ~WasLoaded(last))
    /\ [][(pc = "loop" /\ pet_filepaths' # pet_filepaths /\ pc' = "loop") =>
            /\ Len(pet_filepaths') = Len(pet_filepaths) + 1
            /\ \/ /\ last'.ok
                  /\ suvr_values' = Append(suvr_values, last'.suvr)
                  /\ errors' = errors
               \/ /\ ~last'.ok
                  /\ errors' = Append(errors, ErrorLine(last'))
                  /\ suvr_values' = suvr_values]_vars

C21_Witness ==
    /\ pc = "loop"
    /\ pet_filepaths = <<"wAD03.nii", "wAD01.nii">>
    /\ errors = <<Line("File not found", "wAD03.nii")>>
    /\ suvr_values = <<V(2)>>
    /\ last.ok

\* the iteration got as far as the counts of lines 153-154
ReachedCounts(r) == r.roi_resampled # <<>>

\* the counts are those of the products of lines 149-150, and the two
\* no-voxel reasons are given for a zero count, the ROI count first
CountsAfterMasking(r) ==
    /\ r.num_roi = CountNonzero(Masked(r.pet, r.roi_resampled))
    /\ r.num_ref = CountNonzero(Masked(r.pet, r.ref_resampled))
    /\ r.err = "No ROI voxels" <=> r.num_roi = 0
    /\ r.err = "No reference voxels" <=> (r.num_roi # 0 /\ r.num_ref = 0)

\* C22 as stated: the counts are taken after the multiplication by the
\* (possibly resampled) masks, a zero count skips the file with its reason,
\* and a file whose count is from 1 to 9 is only warned about and is
\* processed to a value.
C22_FewVoxelsStillValue ==
    (pc = "loop" /\ ReachedCounts(last)) =>
        /\ CountsAfterMasking(last)
        /\ (last.num_roi # 0 /\ last.num_ref # 0
              /\ (last.num_roi < MinVoxels \/ last.num_ref < MinVoxels)) => last.ok

\* C22 amended: the counts are taken after the multiplication; a zero ROI
\* count skips the file with the ROI reason, a zero reference count (the ROI
\* count being non-zero) with the reference reason; a count below 10 is warned
\* about and a count from 1 to 9 is never itself a reason to skip: the
\* iteration goes on to the sums, and yields a value unless one of the later
\* checks (reference mean, reference SUV, finite ratio) skips the file.
C22_FewVoxelsOnlyWarn ==
    (pc = "loop" /\ ReachedCounts(last)) =>
        /\ CountsAfterMasking(last)
        /\ last.few_roi <=> last.num_roi < MinVoxels
        /\ last.num_roi # 0 => (last.few_ref <=> last.num_ref < MinVoxels)
        /\ (last.num_roi # 0 /\ last.num_ref # 0) =>
              /\ ReachedSums(last)
              /\ last.ok \/ last.err \in {"Zero or negative reference mean",
                                          "Zero reference SUV", "Invalid SUVR value"}

C22_Witness ==
    /\ pc = "loop"
    /\ last.file = "wYC21.nii"
    /\ last.num_roi = 9
    /\ last.few_roi
    /\ last.num_ref = 10
    /\ ~last.few_ref
    /\ last.ok
    /\ Len(errors) = 1
    /\ errors[1].text = "No reference voxels"

\* the array with every non-finite voxel replaced by zero
NonFiniteZeroed(a) == [i \in 1..Len(a) |-> IF IsFinite(a[i]) THEN a[i] ELSE Zero]

\* C23: before any masking or averaging every non-finite voxel of the loaded
\* volume (NaN, +infinity, -infinity) is replaced by zero, whichever kinds the
\* volume contains; finite voxels are left unchanged and the file is not
\* skipped because of them.
C23_NonFiniteZeroed ==
    (pc = "loop" /\ WasLoaded(last)) =>
        /\ last.pet = NonFiniteZeroed(fs[last.file].frames[1])
        /\ last.err # "Invalid SUVR value"

\* line 205: 0.5 <= suvr <= 3.0
InTypicalRange(x) == FLe(Fin(1, 2), x) /\ FLe(x, V(3))

AllFinite(a) == \A i \in 1..Len(a) : IsFinite(a[i])

\* C24: a ratio that is not finite is skipped with the invalid-value reason
\* and never appears in the output; a finite ratio outside [0.5, 3.0] only
\* sets off a warning and is kept in the output unchanged, neither clamped
\* nor dropped.
C24_ResultValidation ==
    /\ AllFinite(suvr_values) /\ AllFinite(ad_suvr) /\ AllFinite(yc_suvr)
    /\ (pc = "loop" /\ last.divided) =>
          /\ last.suvr = FDiv(last.suv_roi, last.suv_ref)
          /\ ~IsFinite(last.suvr) => ~last.ok /\ last.err = "Invalid SUVR value"
                                       /\ errors[Len(errors)] = ErrorLine(last)
          /\ IsFinite(last.suvr) =>
                /\ last.ok
                /\ suvr_values[Len(suvr_values)] = last.suvr
                /\ filtered_files[Len(filtered_files)] = last.file
                /\ last.out_of_range <=> ~InTypicalRange(last.suvr)

C24_Witness ==
    /\ pc = "loop"
    /\ pet_filepaths = <<"wrYC12.nii", "wrYC10.nii">>
    /\ Len(suvr_values) = 1
    /\ FLt(suvr_values[1], Fin(1, 2))
    /\ errors = <<Line("Invalid SUVR value", "wrYC10.nii")>>
    /\ ~IsFinite(last.suvr)

\* C25: _resample_mask never raises to its caller; when the interpolation or
\* the padding step fails inside it, it returns the original, non-resampled
\* mask (a mask whose number of axes differs from the three factors handed to
\* zoom is such a failure).
C25_BestEffort ==
    nd_pc = "done" =>
        /\ ~nd_raised
        /\ nd_failed => nd_out = nd_mask
        /\ (nd_mask.shape # nd_target /\ Len(nd_mask.shape) # ZoomRank) => nd_failed

C25_Witness ==
    /\ nd_pc = "done"
    /\ nd_mask.shape = <<2, 2, 2, 1>>
    /\ nd_target = <<2, 2, 2>>
    /\ nd_failed
    /\ nd_out = nd_mask
    /\ nd_out.at[<<1, 1, 1, 1>>] # nd_out.at[<<2, 1, 1, 1>>]

\* length of axis k after interpolation: the target's, or 0 for an empty axis
ZoomedSide(k) == IF nd_mask.shape[k] = 0 THEN 0 ELSE nd_target[k]

\* C26: when mask.shape != targetShape and nothing fails inside, the result
\* comes from one scale factor per axis (target/current, 1 for an axis of
\* length 0) and nearest-neighbour interpolation, so that every output voxel
\* is a voxel of the input mask or a padding zero, with zeros padded at the
\* end of every axis that came out shorter than the target, and the returned
\* mask has exactly targetShape on every axis.
C26_ResampledToTarget ==
    (nd_pc = "done" /\ nd_mask.shape # nd_target /\ ~nd_failed) =>
        /\ nd_out.shape = nd_target
        /\ DOMAIN nd_out.at = Cells(nd_target)
        /\ \A c \in DOMAIN nd_out.at :
              IF \A k \in 1..Len(c) : c[k] <= ZoomedSide(k)
              THEN nd_out.at[c] =
                     nd_mask.at[[k \in 1..Len(c) |->
                         ZoomIndex(c[k] - 1, nd_mask.shape[k], nd_target[k]) + 1]]
              ELSE nd_out.at[c] = Zero

\* how often a name stands in a list
Occurrences(list, name) == Cardinality({i \in 1..Len(list) : list[i] = name})

\* C27: the list _get_pet_files returns holds every eligible file exactly
\* once: no path occurs twice, whatever prefixes (w, wr) the names carry.
C27_EachFileOnce ==
    ls_pc = "done" =>
        /\ \A i, j \in 1..Len(ls_files) : ls_files[i] = ls_files[j] => i = j
        /\ \A e \in ls_dir :
              (e.isfile /\ Matches(ls_dir, e.name) > 0 /\ IsCohortFile(e.name))
                  => Occurrences(ls_files, e.name) = 1

\* the values an array holds
Values(a) == {a[i] : i \in 1..Len(a)}

\* C28: the arrays handed to the agreement analysis are size-matched and
\* group-aligned: the combined standard and the combined computed array have
\* the same length, min(len AD std, len AD calc) + min(len YC std, len YC
\* calc), the AD part precedes the YC part in both, and no AD computed value
\* is paired with a YC reference value nor a YC computed value with an AD
\* reference value; the same holds for the SUVR and for the CL arrays.
C28_SizeMatchedGroupAligned ==
    ra_pc = "done" =>
        LET m == Min(Len(ra_std.ad_suvr_std), Len(ra_calc.ad_suvr))
            n == Min(Len(ra_std.yc_suvr_std), Len(ra_calc.yc_suvr))
        IN  /\ Len(combined_suvr_std) = m + n
            /\ Len(combined_suvr_calc) = m + n
            /\ Len(combined_cl_std) = m + n
            /\ Len(combined_cl_calc) = m + n
            /\ \A i \in 1..(m + n) :
                  IF i <= m
                  THEN /\ combined_suvr_std[i] = ra_std.ad_suvr_std[i]
                       /\ combined_suvr_calc[i] = ra_calc.ad_suvr[i]
                       /\ combined_cl_std[i] = ra_std.ad_cl_std[i]
                       /\ combined_cl_calc[i] = ra_calc.ad_cl[i]
                  ELSE /\ combined_suvr_std[i] = ra_std.yc_suvr_std[i - m]
                       /\ combined_suvr_calc[i] = ra_calc.yc_suvr[i - m]
                       /\ combined_cl_std[i] = ra_std.yc_cl_std[i - m]
                       /\ combined_cl_calc[i] = ra_calc.yc_cl[i - m]
            /\ \A i \in 1..(m + n) :
                  /\ combined_suvr_calc[i] \in ADCalcVals
                        <=> combined_suvr_std[i] \in {r[1] : r \in ADStdRows}
                  /\ combined_cl_calc[i] \in Values(ra_calc.ad_cl)
                        <=> combined_cl_std[i] \in {r[2] : r \in ADStdRows}

C28_Witness ==
    /\ ra_pc = "done"
    /\ Len(ra_std.ad_suvr_std) = 1
    /\ Len(ra_calc.ad_suvr) = 2
    /\ Len(ra_std.yc_suvr_std) = 2
    /\ Len(ra_calc.yc_suvr) = 1
    /\ Len(combined_suvr_calc) = 2
    /\ combined_suvr_calc[2] \in YCCalcVals
    /\ combined_suvr_std[2] = Fin(1, 1)
    /\ combined_cl_std = <<V(100), V(0)>>

\* C29: the SUVR column and the CL column identified for a standard table are
\* always two different columns, whether each was found by header keyword or
\* by value range, for identify_columns and for the _find_column calls of
\* _extract_standard_values alike.
C29_DistinctColumns ==
    /\ (tb_columns.suvr # 0 /\ tb_columns.cl # 0) => tb_columns.suvr # tb_columns.cl
    /\ std_pc \in {"loaded", "extracted"} =>
          LET suvr_col == FindColumn(std_data.data, KwSUVR, V(1), V(3))
              cl_col == FindColumn(std_data.data, KwCL, V(0), V(150))
          IN  (suvr_col # 0 /\ cl_col # 0) => suvr_col # cl_col

\* how often a signal stands in the emissions of a thread
Emissions(t, sig) == Cardinality({i \in 1..Len(wk_emitted[t]) : wk_emitted[t][i].sig = sig})

\* started is the first emission and finished the last, each emitted once
StartedFirstFinishedLast(t) ==
    /\ wk_emitted[t] # <<>> => wk_emitted[t][1].sig = "started"
    /\ Emissions(t, "started") <= 1
    /\ wk_pc[t] # "done" => Emissions(t, "finished") = 0
    /\ wk_pc[t] = "done" =>
          /\ Emissions(t, "started") = 1
          /\ Emissions(t, "finished") = 1
          /\ wk_emitted[t][Len(wk_emitted[t])].sig = "finished"

\* C30 as stated: for every run started is emitted first, then exactly one of
\* result (the task returned) or error (the task raised; Worker.exception is
\* set), never both, and finished is always emitted last, exactly once,
\* whether the task returned or raised.
C30_ExactlyOneOutcomeSignal ==
    /\ [](\A t \in Threads :
            /\ StartedFirstFinishedLast(t)
            /\ Emissions(t, "result") + Emissions(t, "error") <= 1
            /\ wk_pc[t] \in {"called", "done"} =>
                  /\ Emissions(t, "result") + Emissions(t, "error") = 1
                  /\ Emissions(t, "result") = 1 <=> wk_task[t].kind = "returns"
                  /\ Emissions(t, "error") = 1 <=> wk_exception[t] # "")
    /\ \A t \in Threads : (wk_pc[t] = "called") ~> (wk_pc[t] = "done")

\* C30 amended: started is emitted first; then result is emitted if the task
\* returned, error is emitted and Worker.exception set if the task raised an
\* Exception, and neither is emitted (Worker.exception staying unset, the
\* exception leaving run) if the task raised outside the Exception hierarchy;
\* never both; finished is emitted last, exactly once, in all three cases.
C30_SignalProtocol ==
    /\ [](\A t \in Threads :
            /\ StartedFirstFinishedLast(t)
            /\ Emissions(t, "result") + Emissions(t, "error") <= 1
            /\ wk_pc[t] \in {"called", "done"} =>
                  /\ Emissions(t, "result") = 1 <=> wk_task[t].kind = "returns"
                  /\ Emissions(t, "error") = 1 <=> wk_task[t].kind = "raises"
                  /\ wk_exception[t] # "" <=> wk_task[t].kind = "raises"
                  /\ wk_task[t].kind = "raises" => wk_exception[t] = wk_task[t].val
            /\ wk_pc[t] = "done" =>
                  /\ wk_emitted[t] = <<Signal("started", "")>> \o EmittedFor(wk_task[t])
                                         \o <<Signal("finished", "")>>
                  /\ wk_escaped[t] <=> wk_task[t].kind = "exits")
    /\ \A t \in Threads : (wk_pc[t] = "called") ~> (wk_pc[t] = "done")

C30_Witness ==
    /\ wk_pc["t1"] = "done"
    /\ wk_emitted["t1"] = <<Signal("started", ""), Signal("error", "no valid files"),
                            Signal("finished", "")>>
    /\ wk_exception["t1"] = "no valid files"
    /\ wk_pc["t2"] = "done"
    /\ wk_emitted["t2"] = <<Signal("started", ""), Signal("finished", "")>>
    /\ wk_escaped["t2"]

====
